---- MODULE Spec2Model ----
(***************************************************************************)
(* whalescope: the whale / movement analysis core of                       *)
(* src/src/services/helius.ts (movement store, pattern detector).          *)
(*                                                                         *)
(* Times are JavaScript times: `now` and movement timestamps are in        *)
(* milliseconds, transaction timestamps in seconds; both count from a      *)
(* model epoch so that every value fits TLC's 32-bit integers.             *)
(***************************************************************************)
EXTENDS Integers, Sequences, FiniteSets, TLC

VARIABLES
    now,               \* Date.now(), milliseconds
    recentMovements,   \* helius.ts:396, global list, newest-inserted first
    movementsByToken,  \* helius.ts:393, Map tokenMint -> list (DOMAIN = keys)
    insertLog,         \* history: every movement handed to recordMovement
                       \* since the last clearMovements, newest first
    lastOp,            \* history: name of the operation that returned last
                       \* ("await" when it returned a pending promise)
    lastCall,          \* history: arguments and result of the last
                       \* processTransactions call (Null after other ops)
    detectArgs,        \* arguments of the pattern detector calls: the
                       \* wallet's transactions, token price and config
    detected,          \* what the last pattern detector call returned
    rawTx,             \* the provider transaction handed to
                       \* parseTransactionData, and the tracked wallet
    parsed,            \* what the last parseTransactionData call returned
    whaleRegistry,     \* helius.ts:803, Map tokenMint -> Map address -> profile
    transactionHistory,\* helius.ts:806, Map wallet -> parsed transactions
    pending,           \* the discoverWhales / analyzeWhale calls waiting for
                       \* the provider (suspended at their await)
    lastResult,        \* history: the call of the whale registry that
                       \* settled last, with the state it started from
    eventLog,          \* history: the calls of discoverWhales / analyzeWhale
                       \* and their settlements since the last
                       \* clearWhaleRegistry, oldest first, where kept
    http               \* the HTTP request being served or answered last:
                       \* its route, the provider calls it has awaited
                       \* and the status it was answered with

storeVars == <<recentMovements, movementsByToken, insertLog, lastCall>>
detectVars == <<detectArgs, detected>>
parseVars == <<rawTx, parsed>>
whaleVars == <<whaleRegistry, transactionHistory, pending, lastResult, eventLog>>
httpVars == <<http>>
vars == <<now, lastOp, storeVars, detectVars, parseVars, whaleVars, httpVars>>

-----------------------------------------------------------------------------
(* Bounds of the model *)

\* per-token cap of the store; helius.ts:387 sets 1000, the model scales it
MAX_MOVEMENTS_PER_TOKEN == 2
\* how many times the clock may advance
MaxTicks == 1
\* longest transaction batch handed to processTransactions
MaxBatch == 2

\* longest transaction history handed to the pattern detectors
MaxTxs == 3

\* longest tokenTransfers list of a provider transaction
MaxTransfers == 2

\* longest transaction history handed to analyzeWhaleBehavior
MaxHistory == 7

\* how many holders discoverWhales asks the provider for; helius.ts:836
\* asks for 100, the model scales it
DiscoverLimit == 2
\* longest holder list the provider answers with: one more than asked for
MaxHolders == DiscoverLimit + 1

\* longest log of calls and settlements kept between two clears of the
\* registry
MaxEvents == 5

\* how many wallets a list route of the HTTP layer queries in its loop: the
\* movements route takes the first 5 tracked addresses; whales.ts:58 lists
\* 9 known wallets, which the model scales
MaxWallets == 5

\* recordMovement calls explored between two clears: one more than the cap
MaxInserts == MAX_MOVEMENTS_PER_TOKEN + 1

-----------------------------------------------------------------------------
(* Program constants *)

DAY_MS == 24 * 60 * 60 * 1000
MAX_MOVEMENT_AGE_MS == 7 * 24 * 60 * 60 * 1000
DEFAULT_WINDOW_MS == 24 * 60 * 60 * 1000

DEFAULT_WHALE_CONFIG ==
    [ minWhaleHoldingsUsd |-> 100000,
      minMovementUsd      |-> 10000,
      patternWindowMs     |-> 24 * 60 * 60 * 1000,
      minPatternTxCount   |-> 3 ]

\* the absent value: null / undefined
Null == [isNull |-> TRUE]

Min(a, b) == IF a <= b THEN a ELSE b
Max(a, b) == IF a >= b THEN a ELSE b

\* Array.prototype.slice(0, limit)
Slice(s, limit) == SubSeq(s, 1, Min(limit, Len(s)))

-----------------------------------------------------------------------------
(* Movement creation *)

\* String.prototype.slice(0, 8) on the strings the model uses
Slice8(s) ==
    CASE s = "sig1AAAAAAAA" -> "sig1AAAA"
      [] s = "sig2BBBBBBBB" -> "sig2BBBB"
      [] s = "whale1CCCCCC" -> "whale1CC"
      [] s = "whale2DDDDDD" -> "whale2DD"
      [] OTHER -> s

generateMovementId(signature, whale, t) ==
    <<Slice8(signature), Slice8(whale), t>>

isSignificantMovement_Strict(usdValue, config) ==
    usdValue > config.minMovementUsd

isSignificantMovement(usdValue, config) ==
    usdValue >= config.minMovementUsd

\* tx.tokenOut?.mint === tokenMint
MintIs(leg, tokenMint) == leg # Null /\ leg.mint = tokenMint

\* the branches of createMovement with the two legs of a swap tested in the
\* opposite order
movementLeg_SoldFirst(tx, tokenMint) ==
    IF tx.type = "swap" THEN
        IF MintIs(tx.tokenIn, tokenMint)
            THEN [amount |-> tx.tokenIn.uiAmount, direction |-> "out"]
        ELSE IF MintIs(tx.tokenOut, tokenMint)
            THEN [amount |-> tx.tokenOut.uiAmount, direction |-> "in"]
        ELSE Null
    ELSE IF tx.type = "transfer" /\ MintIs(tx.transfer, tokenMint) THEN
        [amount |-> tx.transfer.uiAmount, direction |-> "out"]
    ELSE IF tx.type = "stake" \/ tx.type = "unstake" THEN
        [amount    |-> IF tx.tokenIn # Null THEN tx.tokenIn.uiAmount ELSE 0,
         direction |-> IF tx.type = "stake" THEN "out" ELSE "in"]
    ELSE Null

\* the branches of createMovement up to `const usdValue`: Null when the
\* function has returned null, else the amount and direction
movementLeg(tx, tokenMint) ==
    IF tx.type = "swap" THEN
        IF MintIs(tx.tokenOut, tokenMint)
            THEN [amount |-> tx.tokenOut.uiAmount, direction |-> "in"]
        ELSE IF MintIs(tx.tokenIn, tokenMint)
            THEN [amount |-> tx.tokenIn.uiAmount, direction |-> "out"]
        ELSE Null
    ELSE IF tx.type = "transfer" /\ MintIs(tx.transfer, tokenMint) THEN
        [amount |-> tx.transfer.uiAmount, direction |-> "out"]
    ELSE IF tx.type = "stake" \/ tx.type = "unstake" THEN
        [amount    |-> IF tx.tokenIn # Null THEN tx.tokenIn.uiAmount ELSE 0,
         direction |-> IF tx.type = "stake" THEN "out" ELSE "in"]
    ELSE Null

createMovement(tx, whale, tokenMint, tokenPrice, config, t) ==
    LET leg == movementLeg(tx, tokenMint) IN
    IF leg = Null THEN Null
    ELSE LET usdValue == leg.amount * tokenPrice IN
         IF ~isSignificantMovement(usdValue, config) THEN Null
         ELSE [ id        |-> generateMovementId(tx.signature, whale, t),
                timestamp |-> tx.timestamp * 1000,
                whale     |-> whale,
                type      |-> tx.type,
                tokenMint |-> tokenMint,
                amount    |-> leg.amount,
                usdValue  |-> usdValue,
                signature |-> tx.signature,
                direction |-> leg.direction ]

-----------------------------------------------------------------------------
(* The movement store: a pair [recent, byToken] *)

EmptyStore == [recent |-> <<>>, byToken |-> <<>>]

Front(s) == SubSeq(s, 1, Len(s) - 1)
Last(s) == s[Len(s)]

\* first loop of pruneMovements, dropping an entry already at the age limit
RECURSIVE pruneGlobal_AtLimit(_, _)
pruneGlobal_AtLimit(list, cutoff) ==
    IF Len(list) > 0
       /\ (Len(list) > MAX_MOVEMENTS_PER_TOKEN * 10
           \/ Last(list).timestamp <= cutoff)
    THEN pruneGlobal_AtLimit(Front(list), cutoff)
    ELSE list

\* first loop of pruneMovements
RECURSIVE pruneGlobal(_, _)
pruneGlobal(list, cutoff) ==
    IF Len(list) > 0
       /\ (Len(list) > MAX_MOVEMENTS_PER_TOKEN * 10
           \/ Last(list).timestamp < cutoff)
    THEN pruneGlobal(Front(list), cutoff)
    ELSE list

\* the while loop of pruneMovements's second loop, with a cap ten times
\* too large
RECURSIVE pruneTokenList_GlobalCap(_, _)
pruneTokenList_GlobalCap(list, cutoff) ==
    IF Len(list) > MAX_MOVEMENTS_PER_TOKEN * 10
       \/ (Len(list) > 0 /\ Last(list).timestamp < cutoff)
    THEN pruneTokenList_GlobalCap(Front(list), cutoff)
    ELSE list

\* the while loop inside pruneMovements's second loop
RECURSIVE pruneTokenList(_, _)
pruneTokenList(list, cutoff) ==
    IF Len(list) > MAX_MOVEMENTS_PER_TOKEN
       \/ (Len(list) > 0 /\ Last(list).timestamp < cutoff)
    THEN pruneTokenList(Front(list), cutoff)
    ELSE list

\* pruneMovements leaving the emptied lists in the mapping
pruneMovements_KeepsEmpty(store, t) ==
    LET cutoff == t - MAX_MOVEMENT_AGE_MS
    IN  [recent  |-> pruneGlobal(store.recent, cutoff),
         byToken |-> [k \in DOMAIN store.byToken |->
                        pruneTokenList(store.byToken[k], cutoff)]]

pruneMovements(store, t) ==
    LET cutoff == t - MAX_MOVEMENT_AGE_MS
        pruned == [k \in DOMAIN store.byToken |->
                        pruneTokenList(store.byToken[k], cutoff)]
        kept   == {k \in DOMAIN pruned : Len(pruned[k]) # 0}
    IN  [recent  |-> pruneGlobal(store.recent, cutoff),
         byToken |-> [k \in kept |-> pruned[k]]]

\* Array.prototype.unshift
Unshift(list, m) == <<m>> \o list

\* recordMovement with the new movement appended instead of prepended
recordMovement_Append(store, m, t) ==
    LET old == IF m.tokenMint \in DOMAIN store.byToken
               THEN store.byToken[m.tokenMint] ELSE <<>>
        keys == DOMAIN store.byToken \cup {m.tokenMint}
    IN  pruneMovements(
          [recent  |-> Append(store.recent, m),
           byToken |-> [k \in keys |->
                          IF k = m.tokenMint THEN Append(old, m)
                          ELSE store.byToken[k]]], t)

\* recordMovement starting a new list for the token at every call
recordMovement_Replaces(store, m, t) ==
    LET keys == DOMAIN store.byToken \cup {m.tokenMint}
    IN  pruneMovements(
          [recent  |-> Unshift(store.recent, m),
           byToken |-> [k \in keys |->
                          IF k = m.tokenMint THEN <<m>>
                          ELSE store.byToken[k]]], t)

recordMovement(store, m, t) ==
    LET old == IF m.tokenMint \in DOMAIN store.byToken
               THEN store.byToken[m.tokenMint] ELSE <<>>
        keys == DOMAIN store.byToken \cup {m.tokenMint}
    IN  pruneMovements(
          [recent  |-> Unshift(store.recent, m),
           byToken |-> [k \in keys |->
                          IF k = m.tokenMint THEN Unshift(old, m)
                          ELSE store.byToken[k]]], t)

\* the loop of processTransactions returning the movements newest first
RECURSIVE processLoop_Unshift(_, _, _, _, _, _, _, _)
processLoop_Unshift(txs, i, whale, tokenMint, tokenPrice, config, t, acc) ==
    IF i > Len(txs) THEN acc
    ELSE LET movement == createMovement(txs[i], whale, tokenMint,
                                        tokenPrice, config, t)
         IN  processLoop_Unshift(txs, i + 1, whale, tokenMint, tokenPrice,
                config, t,
                IF movement # Null
                THEN [store    |-> recordMovement(acc.store, movement, t),
                      recorded |-> <<movement>> \o acc.recorded]
                ELSE acc)

\* processTransactions: the loop over the batch, from index i on; acc is
\* [store, recorded]
RECURSIVE processLoop(_, _, _, _, _, _, _, _)
processLoop(txs, i, whale, tokenMint, tokenPrice, config, t, acc) ==
    IF i > Len(txs) THEN acc
    ELSE LET movement == createMovement(txs[i], whale, tokenMint,
                                        tokenPrice, config, t)
         IN  processLoop(txs, i + 1, whale, tokenMint, tokenPrice, config, t,
                IF movement # Null
                THEN [store    |-> recordMovement(acc.store, movement, t),
                      recorded |-> Append(acc.recorded, movement)]
                ELSE acc)

\* the loop of processTransactions skipping a transaction whose signature
\* the store already holds for the whale and the token
RECURSIVE processLoop_SkipsKnown(_, _, _, _, _, _, _, _)
processLoop_SkipsKnown(txs, i, whale, tokenMint, tokenPrice, config, t, acc) ==
    IF i > Len(txs) THEN acc
    ELSE LET movement == createMovement(txs[i], whale, tokenMint,
                                        tokenPrice, config, t)
             known == \E j \in DOMAIN acc.store.recent :
                         /\ acc.store.recent[j].signature = txs[i].signature
                         /\ acc.store.recent[j].whale = whale
                         /\ acc.store.recent[j].tokenMint = tokenMint
         IN  processLoop_SkipsKnown(txs, i + 1, whale, tokenMint, tokenPrice,
                config, t,
                IF movement # Null /\ ~known
                THEN [store    |-> recordMovement(acc.store, movement, t),
                      recorded |-> Append(acc.recorded, movement)]
                ELSE acc)

\* processTransactions with that loop
processTransactions_Deduplicates(store, txs, whale, tokenMint, tokenPrice, config, t) ==
    processLoop_SkipsKnown(txs, 1, whale, tokenMint, tokenPrice, config, t,
                [store |-> store, recorded |-> <<>>])

processTransactions(store, txs, whale, tokenMint, tokenPrice, config, t) ==
    processLoop(txs, 1, whale, tokenMint, tokenPrice, config, t,
                [store |-> store, recorded |-> <<>>])

-----------------------------------------------------------------------------
(* Queries, over the current store *)

TheStore == [recent |-> recentMovements, byToken |-> movementsByToken]

\* movementsByToken.get(tokenMint) || []
TokenList(tokenMint) ==
    IF tokenMint \in DOMAIN movementsByToken
    THEN movementsByToken[tokenMint] ELSE <<>>

getMovementsByToken(tokenMint, limit) == Slice(TokenList(tokenMint), limit)

getMovementsByWhale(whaleAddress, limit) ==
    LET Test(m) == m.whale = whaleAddress
    IN  Slice(SelectSeq(recentMovements, Test), limit)

getAllRecentMovements(limit) == Slice(recentMovements, limit)

getMovementsByType(type, limit) ==
    LET Test(m) == m.type = type
    IN  Slice(SelectSeq(recentMovements, Test), limit)

getLargeMovements(minUsd, limit) ==
    LET Test(m) == m.usdValue >= minUsd
    IN  Slice(SelectSeq(recentMovements, Test), limit)

\* reduce((sum, m) => sum + m.usdValue, 0)
RECURSIVE SumUsd(_)
SumUsd(list) ==
    IF list = <<>> THEN 0 ELSE list[1].usdValue + SumUsd(Tail(list))

\* reduce((largest, m) => !largest || m.usdValue > largest.usdValue
\*                           ? m : largest, null), from index i on
RECURSIVE Largest(_, _, _)
Largest(list, i, largest) ==
    IF i > Len(list) THEN largest
    ELSE Largest(list, i + 1,
            IF largest = Null \/ list[i].usdValue > largest.usdValue
            THEN list[i] ELSE largest)

\* the filter of getMovementStats and getNetFlow
InWindow(tokenMint, windowMs) ==
    LET cutoff == now - windowMs
        Test(m) == m.timestamp >= cutoff
    IN  SelectSeq(TokenList(tokenMint), Test)

\* getMovementStats dividing without the guard on an empty window: 0 / 0
getMovementStats_Unguarded(tokenMint, windowMs) ==
    LET movements == InWindow(tokenMint, windowMs)
        IsIn(m) == m.direction = "in"
        IsOut(m) == m.direction = "out"
        IsSwap(m) == m.type = "swap"
        IsTransfer(m) == m.type = "transfer"
        IsStake(m) == m.type = "stake" \/ m.type = "unstake"
        inflows == SelectSeq(movements, IsIn)
        outflows == SelectSeq(movements, IsOut)
        inflowVolumeUsd == SumUsd(inflows)
        outflowVolumeUsd == SumUsd(outflows)
        totalVolumeUsd == inflowVolumeUsd + outflowVolumeUsd
    IN  [ totalMovements     |-> Len(movements),
          totalVolumeUsd     |-> totalVolumeUsd,
          inflows            |-> Len(inflows),
          outflows           |-> Len(outflows),
          inflowVolumeUsd    |-> inflowVolumeUsd,
          outflowVolumeUsd   |-> outflowVolumeUsd,
          largestMovement    |-> Largest(movements, 1, Null),
          averageMovementUsd |-> <<totalVolumeUsd, Len(movements)>>,
          swaps              |-> Len(SelectSeq(movements, IsSwap)),
          transfers          |-> Len(SelectSeq(movements, IsTransfer)),
          stakes             |-> Len(SelectSeq(movements, IsStake)) ]

getMovementStats(tokenMint, windowMs) ==
    LET movements == InWindow(tokenMint, windowMs)
        IsIn(m) == m.direction = "in"
        IsOut(m) == m.direction = "out"
        IsSwap(m) == m.type = "swap"
        IsTransfer(m) == m.type = "transfer"
        IsStake(m) == m.type = "stake" \/ m.type = "unstake"
        inflows == SelectSeq(movements, IsIn)
        outflows == SelectSeq(movements, IsOut)
        inflowVolumeUsd == SumUsd(inflows)
        outflowVolumeUsd == SumUsd(outflows)
        totalVolumeUsd == inflowVolumeUsd + outflowVolumeUsd
    IN  [ totalMovements     |-> Len(movements),
          totalVolumeUsd     |-> totalVolumeUsd,
          inflows            |-> Len(inflows),
          outflows           |-> Len(outflows),
          inflowVolumeUsd    |-> inflowVolumeUsd,
          outflowVolumeUsd   |-> outflowVolumeUsd,
          largestMovement    |-> Largest(movements, 1, Null),
          \* the quotient as <<numerator, denominator>>: <<0, 1>> is 0,
          \* <<0, 0>> would be NaN
          averageMovementUsd |-> IF Len(movements) > 0
                                 THEN <<totalVolumeUsd, Len(movements)>>
                                 ELSE <<0, 1>>,
          swaps              |-> Len(SelectSeq(movements, IsSwap)),
          transfers          |-> Len(SelectSeq(movements, IsTransfer)),
          stakes             |-> Len(SelectSeq(movements, IsStake)) ]

\* reduce((sum, m) => sum + (m.direction === 'in' ? m.amount : -m.amount), 0)
RECURSIVE SignedAmount(_)
SignedAmount(list) ==
    IF list = <<>> THEN 0
    ELSE (IF list[1].direction = "in" THEN list[1].amount ELSE -list[1].amount)
         + SignedAmount(Tail(list))

\* getNetFlow calling a movement bullish or bearish from $10,000 on
getNetFlow_From10k(tokenMint, windowMs) ==
    LET stats == getMovementStats(tokenMint, windowMs)
        netFlowUsd == stats.inflowVolumeUsd - stats.outflowVolumeUsd
    IN  [ netFlowUsd    |-> netFlowUsd,
          netFlowAmount |-> SignedAmount(InWindow(tokenMint, windowMs)),
          sentiment     |-> IF netFlowUsd >= 10000 THEN "bullish"
                            ELSE IF netFlowUsd <= -10000 THEN "bearish"
                            ELSE "neutral" ]

getNetFlow(tokenMint, windowMs) ==
    LET stats == getMovementStats(tokenMint, windowMs)
        netFlowUsd == stats.inflowVolumeUsd - stats.outflowVolumeUsd
    IN  [ netFlowUsd    |-> netFlowUsd,
          netFlowAmount |-> SignedAmount(InWindow(tokenMint, windowMs)),
          sentiment     |-> IF netFlowUsd > 10000 THEN "bullish"
                            ELSE IF netFlowUsd < -10000 THEN "bearish"
                            ELSE "neutral" ]

-----------------------------------------------------------------------------
(* Pattern detector *)

\* JavaScript numbers of the confidence computation, in hundredths: a finite
\* number n/100, or NaN. Quotients are rounded towards minus infinity to
\* the next hundredth.
JsNum(n) == [nan |-> FALSE, pct |-> n]
NaN == [nan |-> TRUE, pct |-> 0]
\* Infinity: larger than every finite number of the model
Infinity == JsNum(1000000000)

\* a <= b on JavaScript numbers (false when either is NaN)
JsLeq(a, b) == ~a.nan /\ ~b.nan /\ a.pct <= b.pct

\* Math.min, Math.max: NaN when either argument is NaN
MathMin(a, b) == IF a.nan \/ b.nan THEN NaN ELSE IF a.pct <= b.pct THEN a ELSE b
MathMax(a, b) == IF a.nan \/ b.nan THEN NaN ELSE IF a.pct >= b.pct THEN a ELSE b

\* 1 - x
OneMinus(x) == IF x.nan THEN NaN ELSE JsNum(100 - x.pct)

\* reduce((sum, x) => sum + x, 0) over numbers
RECURSIVE SumSeq(_)
SumSeq(xs) == IF xs = <<>> THEN 0 ELSE xs[1] + SumSeq(Tail(xs))

\* (k * total)^2 <= 10^4 * d, computed without leaving 32 bits
HundredthsLeq(k, total, d) ==
    LET a == k * total
        q == a \div 100
        r == a % 100
    IN  /\ q <= 46340
        /\ q * q <= d
        /\ (200 * q * r + r * r + 9999) \div 10000 <= d - q * q

\* the largest k <= CvCap with k/100 <= sqrt(d) / total; the quotient of n
\* sizes is below sqrt(n)
CvCap == 100 * MaxTxs
FloorHundredths(total, d) ==
    CHOOSE k \in 0..CvCap :
        /\ HundredthsLeq(k, total, d)
        /\ k = CvCap \/ ~HundredthsLeq(k + 1, total, d)

\* variance / avg taken for the coefficient of variation
CoefficientOfVariation_Variance(xs) ==
    LET n == Len(xs)
        total == SumSeq(xs)
        d == n * SumSeq([i \in 1..n |-> xs[i] * xs[i]]) - total * total
        q == d \div (n * total)
        r == d % (n * total)
    IN  IF total = 0 THEN NaN
        ELSE IF q >= CvCap THEN JsNum(100 * CvCap)
        ELSE JsNum(100 * q + (100 * r) \div (n * total))

\* stdDev / avg for the trade sizes xs (n of them, n > 0). With
\* avg = total / n and variance = sum (x - avg)^2 / n, n^2 * variance is
\* d = n * sum x^2 - total^2, so stdDev / avg = sqrt(d) / total; 0 / 0 is
\* NaN and a positive stdDev over 0 is Infinity.
CoefficientOfVariation(xs) ==
    LET n == Len(xs)
        total == SumSeq(xs)
        d == n * SumSeq([i \in 1..n |-> xs[i] * xs[i]]) - total * total
    IN  IF total = 0 THEN (IF d = 0 THEN NaN ELSE Infinity)
        ELSE JsNum(FloorHundredths(total, d))

\* the confidence without the lower clamp Math.max(0, .)
Confidence_NoLowerClamp(xs) ==
    MathMin(JsNum(100), OneMinus(CoefficientOfVariation(xs)))

\* Math.max(0, Math.min(1, 1 - cv))
Confidence(xs) ==
    MathMax(JsNum(0), MathMin(JsNum(100), OneMinus(CoefficientOfVariation(xs))))

\* Math.min(...xs), Math.max(...xs) of a non-empty list
SeqMin(xs) == CHOOSE x \in {xs[i] : i \in DOMAIN xs} :
                  \A i \in DOMAIN xs : x <= xs[i]
SeqMax(xs) == CHOOSE x \in {xs[i] : i \in DOMAIN xs} :
                  \A i \in DOMAIN xs : x >= xs[i]

\* tx.tokenOut?.uiAmount || 0
UiAmountOr0(leg) == IF leg = Null THEN 0 ELSE leg.uiAmount

\* the filter of detectAccumulationPattern without the window test
QualifyingBuys_AnyTime(transactions, tokenMint, windowStart) ==
    LET Test(tx) ==
            /\ tx.type = "swap"
            /\ MintIs(tx.tokenOut, tokenMint)
    IN  SelectSeq(transactions, Test)

\* the filter of detectAccumulationPattern
QualifyingBuys(transactions, tokenMint, windowStart) ==
    LET Test(tx) ==
            /\ ~(tx.timestamp * 1000 < windowStart)
            /\ ~(tx.type # "swap")
            /\ MintIs(tx.tokenOut, tokenMint)
    IN  SelectSeq(transactions, Test)

\* the filter of detectDistributionPattern
QualifyingSells(transactions, tokenMint, windowStart) ==
    LET Test(tx) ==
            /\ ~(tx.timestamp * 1000 < windowStart)
            /\ ~(tx.type # "swap")
            /\ MintIs(tx.tokenIn, tokenMint)
    IN  SelectSeq(transactions, Test)

\* the detectors with the volume gate applied to every swap instead of
\* their total
PatternOf_PerTx(walletAddress, tokenMint, type, selected, sizes, tokenPrice, config) ==
    IF Len(selected) < config.minPatternTxCount THEN Null
    ELSE
      LET totalAmount == SumSeq(sizes)
          totalUsdValue == totalAmount * tokenPrice
          timestamps == [i \in 1..Len(selected) |-> selected[i].timestamp]
      IN  IF \E i \in DOMAIN sizes : sizes[i] * tokenPrice < config.minMovementUsd
          THEN Null
          ELSE [ whale         |-> walletAddress,
                 tokenMint     |-> tokenMint,
                 type          |-> type,
                 txCount       |-> Len(selected),
                 totalAmount   |-> totalAmount,
                 totalUsdValue |-> totalUsdValue,
                 startTime     |-> SeqMin(timestamps) * 1000,
                 endTime       |-> SeqMax(timestamps) * 1000,
                 confidence    |-> Confidence(sizes) ]

\* both detectors from the length check on: selected are the qualifying
\* swaps, sizes their trade sizes
PatternOf(walletAddress, tokenMint, type, selected, sizes, tokenPrice, config) ==
    IF Len(selected) < config.minPatternTxCount THEN Null
    ELSE
      LET totalAmount == SumSeq(sizes)
          totalUsdValue == totalAmount * tokenPrice
          timestamps == [i \in 1..Len(selected) |-> selected[i].timestamp]
      IN  IF totalUsdValue < config.minMovementUsd * config.minPatternTxCount
          THEN Null
          ELSE [ whale         |-> walletAddress,
                 tokenMint     |-> tokenMint,
                 type          |-> type,
                 txCount       |-> Len(selected),
                 totalAmount   |-> totalAmount,
                 totalUsdValue |-> totalUsdValue,
                 startTime     |-> SeqMin(timestamps) * 1000,
                 endTime       |-> SeqMax(timestamps) * 1000,
                 confidence    |-> Confidence(sizes) ]

detectAccumulationPattern(walletAddress, tokenMint, transactions, tokenPrice, config, t) ==
    LET windowStart == t - config.patternWindowMs
        buys == QualifyingBuys(transactions, tokenMint, windowStart)
    IN  PatternOf(walletAddress, tokenMint, "accumulation", buys,
                  [i \in 1..Len(buys) |-> UiAmountOr0(buys[i].tokenOut)],
                  tokenPrice, config)

detectDistributionPattern(walletAddress, tokenMint, transactions, tokenPrice, config, t) ==
    LET windowStart == t - config.patternWindowMs
        sells == QualifyingSells(transactions, tokenMint, windowStart)
    IN  PatternOf(walletAddress, tokenMint, "distribution", sells,
                  [i \in 1..Len(sells) |-> UiAmountOr0(sells[i].tokenIn)],
                  tokenPrice, config)

-----------------------------------------------------------------------------
(* Whale behavior *)

\* the counting loop of analyzeWhaleBehavior from index i on; acc is
\* [buyCount, sellCount]
RECURSIVE countLoop(_, _, _, _)
countLoop(recentTxs, i, tokenMint, acc) ==
    IF i > Len(recentTxs) THEN acc
    ELSE LET tx == recentTxs[i]
             bought == IF MintIs(tx.tokenOut, tokenMint) THEN 1 ELSE 0
             sold == IF MintIs(tx.tokenIn, tokenMint) THEN 1 ELSE 0
         IN  countLoop(recentTxs, i + 1, tokenMint,
                IF tx.type = "swap"
                THEN [buyCount  |-> acc.buyCount + bought,
                      sellCount |-> acc.sellCount + sold]
                ELSE IF tx.type = "transfer" /\ MintIs(tx.transfer, tokenMint)
                THEN [acc EXCEPT !.buyCount = acc.buyCount + 1]
                ELSE acc)

\* analyzeWhaleBehavior calling a whale accumulating only above 0.7
analyzeWhaleBehavior_Above(walletAddress, tokenMint, transactions, config, t) ==
    LET windowStart == t - config.patternWindowMs
        Recent(tx) == tx.timestamp * 1000 >= windowStart
        recentTxs == SelectSeq(transactions, Recent)
        counts == countLoop(recentTxs, 1, tokenMint,
                            [buyCount |-> 0, sellCount |-> 0])
        totalTxs == counts.buyCount + counts.sellCount
    IN  IF Len(recentTxs) < config.minPatternTxCount THEN "holding"
        ELSE IF totalTxs < config.minPatternTxCount THEN "holding"
        ELSE IF totalTxs = 0 THEN "holding"
        ELSE IF 10 * counts.buyCount > 7 * totalTxs THEN "accumulating"
        ELSE IF 10 * counts.buyCount <= 3 * totalTxs THEN "distributing"
        ELSE "holding"

\* buyRatio = buyCount / totalTxs is compared with 0.7 and 0.3 as
\* 10 * buyCount with 7 * totalTxs and 3 * totalTxs; 0 / 0 is NaN, for which
\* both comparisons are false
analyzeWhaleBehavior(walletAddress, tokenMint, transactions, config, t) ==
    LET windowStart == t - config.patternWindowMs
        Recent(tx) == tx.timestamp * 1000 >= windowStart
        recentTxs == SelectSeq(transactions, Recent)
        counts == countLoop(recentTxs, 1, tokenMint,
                            [buyCount |-> 0, sellCount |-> 0])
        totalTxs == counts.buyCount + counts.sellCount
    IN  IF Len(recentTxs) < config.minPatternTxCount THEN "holding"
        ELSE IF totalTxs < config.minPatternTxCount THEN "holding"
        ELSE IF totalTxs = 0 THEN "holding"
        ELSE IF 10 * counts.buyCount >= 7 * totalTxs THEN "accumulating"
        ELSE IF 10 * counts.buyCount <= 3 * totalTxs THEN "distributing"
        ELSE "holding"

-----------------------------------------------------------------------------
(* Parsing provider transactions *)

\* A JavaScript string is a record holding its characters; an optional
\* array is a record holding its items. undefined is Null.
Str(chars) == [chars |-> chars]
Arr(items) == [items |-> items]

LowerCase == << "a", "b", "c", "d", "e", "f", "g", "h", "i", "j", "k", "l", "m",
                "n", "o", "p", "q", "r", "s", "t", "u", "v", "w", "x", "y", "z" >>
UpperCase == << "A", "B", "C", "D", "E", "F", "G", "H", "I", "J", "K", "L", "M",
                "N", "O", "P", "Q", "R", "S", "T", "U", "V", "W", "X", "Y", "Z" >>

UpperChar(c) ==
    IF \E i \in DOMAIN LowerCase : LowerCase[i] = c
    THEN UpperCase[CHOOSE i \in DOMAIN LowerCase : LowerCase[i] = c]
    ELSE c

\* String.prototype.toUpperCase, on characters
toUpperCase(chars) == [i \in DOMAIN chars |-> UpperChar(chars[i])]

\* tx.type?.toUpperCase() || ''
UpperOrEmpty(str) == IF str = Null THEN <<>> ELSE toUpperCase(str.chars)

\* String.prototype.includes, on characters
includes(chars, sub) ==
    \E i \in 0..(Len(chars) - Len(sub)) :
        SubSeq(chars, i + 1, i + Len(sub)) = sub

SWAP == <<"S", "W", "A", "P">>
JUPITER == <<"J", "U", "P", "I", "T", "E", "R">>
RAYDIUM == <<"R", "A", "Y", "D", "I", "U", "M">>
ORCA == <<"O", "R", "C", "A">>
STAKE == <<"S", "T", "A", "K", "E">>
MARINADE == <<"M", "A", "R", "I", "N", "A", "D", "E">>
JITO == <<"J", "I", "T", "O">>
UNSTAKE == <<"U", "N", "S", "T", "A", "K", "E">>
WITHDRAW == <<"W", "I", "T", "H", "D", "R", "A", "W">>
TRANSFER == <<"T", "R", "A", "N", "S", "F", "E", "R">>

\* tx.tokenTransfers?.length, -1 standing for undefined
LengthOf(arr) == IF arr = Null THEN -1 ELSE Len(arr.items)

\* classifyTransactionType testing the stake rule before the swap rule
classifyTransactionType_StakeFirst(tx) ==
    LET typeStr == UpperOrEmpty(tx.type)
        source == UpperOrEmpty(tx.source)
    IN  IF \/ includes(typeStr, STAKE)
           \/ includes(source, MARINADE)
           \/ includes(source, JITO)
        THEN IF includes(typeStr, UNSTAKE) \/ includes(typeStr, WITHDRAW)
             THEN "unstake" ELSE "stake"
        ELSE IF \/ includes(typeStr, SWAP)
                \/ includes(source, JUPITER)
                \/ includes(source, RAYDIUM)
                \/ includes(source, ORCA)
        THEN "swap"
        ELSE IF \/ includes(typeStr, TRANSFER)
                \/ LengthOf(tx.tokenTransfers) = 1
                \/ LengthOf(tx.nativeTransfers) > 0
        THEN "transfer"
        ELSE "unknown"

classifyTransactionType(tx) ==
    LET typeStr == UpperOrEmpty(tx.type)
        source == UpperOrEmpty(tx.source)
    IN  IF \/ includes(typeStr, SWAP)
           \/ includes(source, JUPITER)
           \/ includes(source, RAYDIUM)
           \/ includes(source, ORCA)
        THEN "swap"
        ELSE IF \/ includes(typeStr, STAKE)
                \/ includes(source, MARINADE)
                \/ includes(source, JITO)
        THEN IF includes(typeStr, UNSTAKE) \/ includes(typeStr, WITHDRAW)
             THEN "unstake" ELSE "stake"
        ELSE IF \/ includes(typeStr, TRANSFER)
                \/ LengthOf(tx.tokenTransfers) = 1
                \/ LengthOf(tx.nativeTransfers) > 0
        THEN "transfer"
        ELSE "unknown"

\* categorizeTransfers filing a transfer from the wallet to itself as
\* outgoing too
categorizeTransfers_Both(transfers, wallet) ==
    LET IsIncoming(transfer) == transfer.toUserAccount = wallet
        IsOutgoing(transfer) == transfer.fromUserAccount = wallet
    IN  [ incoming |-> SelectSeq(transfers, IsIncoming),
          outgoing |-> SelectSeq(transfers, IsOutgoing) ]

categorizeTransfers(transfers, wallet) ==
    LET IsIncoming(transfer) == transfer.toUserAccount = wallet
        IsOutgoing(transfer) ==
            /\ ~(transfer.toUserAccount = wallet)
            /\ transfer.fromUserAccount = wallet
    IN  [ incoming |-> SelectSeq(transfers, IsIncoming),
          outgoing |-> SelectSeq(transfers, IsOutgoing) ]

LAMPORTS_PER_SOL == 1000000000

\* lamports / LAMPORTS_PER_SOL, as <<numerator, denominator>>
lamportsToSol(lamports) == <<lamports, LAMPORTS_PER_SOL>>

\* the TokenHolder parseTransactionData makes of a token transfer
HolderOf(transfer) ==
    [ mint     |-> transfer.mint,
      amount   |-> transfer.tokenAmount,
      decimals |-> 0,
      uiAmount |-> transfer.tokenAmount ]

\* parseTransactionData filling tokenIn and tokenOut whatever the type
parseTransactionData_AnyType(tx, trackedWallet) ==
    LET txType == classifyTransactionType(tx)
        base == [ signature |-> tx.signature,
                  timestamp |-> tx.timestamp,
                  type      |-> txType,
                  source    |-> IF tx.source = Null \/ tx.source.chars = <<>>
                                THEN Str(<<"u", "n", "k", "n", "o", "w", "n">>)
                                ELSE tx.source,
                  fee       |-> lamportsToSol(tx.fee),
                  success   |-> TRUE,
                  tokenIn   |-> Null,
                  tokenOut  |-> Null,
                  transfer  |-> Null ]
    IN  IF LengthOf(tx.tokenTransfers) > 0 THEN
            LET c == categorizeTransfers(tx.tokenTransfers.items, trackedWallet)
            IN  IF Len(c.incoming) > 0 /\ Len(c.outgoing) > 0
                THEN [base EXCEPT !.tokenIn = HolderOf(c.outgoing[1]),
                                  !.tokenOut = HolderOf(c.incoming[1])]
                ELSE IF txType = "transfer" THEN
                    IF Len(c.incoming) > 0
                    THEN [base EXCEPT !.transfer = HolderOf(c.incoming[1])]
                    ELSE IF Len(c.outgoing) > 0
                    THEN [base EXCEPT !.transfer = HolderOf(c.outgoing[1])]
                    ELSE base
                ELSE base
        ELSE base

parseTransactionData(tx, trackedWallet) ==
    LET txType == classifyTransactionType(tx)
        base == [ signature |-> tx.signature,
                  timestamp |-> tx.timestamp,
                  type      |-> txType,
                  source    |-> IF tx.source = Null \/ tx.source.chars = <<>>
                                THEN Str(<<"u", "n", "k", "n", "o", "w", "n">>)
                                ELSE tx.source,
                  fee       |-> lamportsToSol(tx.fee),
                  success   |-> TRUE,
                  tokenIn   |-> Null,
                  tokenOut  |-> Null,
                  transfer  |-> Null ]
    IN  IF LengthOf(tx.tokenTransfers) > 0 THEN
            LET c == categorizeTransfers(tx.tokenTransfers.items, trackedWallet)
            IN  IF txType = "swap" /\ Len(c.incoming) > 0 /\ Len(c.outgoing) > 0
                THEN [base EXCEPT !.tokenIn = HolderOf(c.outgoing[1]),
                                  !.tokenOut = HolderOf(c.incoming[1])]
                ELSE IF txType = "transfer" THEN
                    IF Len(c.incoming) > 0
                    THEN [base EXCEPT !.transfer = HolderOf(c.incoming[1])]
                    ELSE IF Len(c.outgoing) > 0
                    THEN [base EXCEPT !.transfer = HolderOf(c.outgoing[1])]
                    ELSE base
                ELSE base
        ELSE base

-----------------------------------------------------------------------------
(* Whale registry *)

\* A JavaScript Map that is iterated keeps its insertion order: it is a
\* sequence of [key, value] entries with distinct keys.
MapHas(map, key) == \E i \in DOMAIN map : map[i].key = key

\* Map.prototype.get, undefined when the key is absent
MapGet(map, key) ==
    IF MapHas(map, key)
    THEN map[CHOOSE i \in DOMAIN map : map[i].key = key].value
    ELSE Null

\* Map.prototype.set: a known key keeps its place
MapSet(map, key, value) ==
    IF MapHas(map, key)
    THEN [i \in DOMAIN map |->
            IF map[i].key = key THEN [key |-> key, value |-> value] ELSE map[i]]
    ELSE Append(map, [key |-> key, value |-> value])

\* Array.from(map.values())
MapValues(map) == [i \in DOMAIN map |-> map[i].value]

\* whaleRegistry.has(tokenMint): the outer Map is never iterated, so it is a
\* function whose DOMAIN is its keys
RegistryHas(registry, tokenMint) == tokenMint \in DOMAIN registry

\* whaleRegistry.get(tokenMint).set(address, profile) after the `has` test
RegistrySet(registry, tokenMint, address, profile) ==
    LET old == IF RegistryHas(registry, tokenMint)
               THEN registry[tokenMint] ELSE <<>>
    IN  [k \in DOMAIN registry \cup {tokenMint} |->
            IF k = tokenMint THEN MapSet(old, address, profile) ELSE registry[k]]

isWhale_Above(usdValue, config) == usdValue > config.minWhaleHoldingsUsd

isWhale(usdValue, config) == usdValue >= config.minWhaleHoldingsUsd

\* getLargestTokenHolders once the provider has answered with `value`
getLargestTokenHolders(value, limit) ==
    LET top == Slice(value, limit)
    IN  [i \in DOMAIN top |->
            [ address  |-> top[i].address,
              amount   |-> top[i].amount,
              decimals |-> top[i].decimals,
              uiAmount |-> top[i].uiAmount ]]

\* the loop of discoverWhales keeping the profile of a wallet the registry
\* already knows
RECURSIVE discoverLoop_KeepsKnown(_, _, _, _, _, _, _)
discoverLoop_KeepsKnown(holders, i, tokenMint, tokenPrice, config, t, acc) ==
    IF i > Len(holders) THEN acc
    ELSE LET holder == holders[i]
             usdValue == holder.uiAmount * tokenPrice
             known == IF RegistryHas(acc.registry, tokenMint)
                      THEN MapGet(acc.registry[tokenMint], holder.address)
                      ELSE Null
             profile == IF known # Null THEN known
                        ELSE [ address       |-> holder.address,
                               tokenMint     |-> tokenMint,
                               holdings      |-> holder.uiAmount,
                               usdValue      |-> usdValue,
                               firstSeen     |-> t,
                               lastActivity  |-> t,
                               behavior      |-> "unknown",
                               recentTxCount |-> 0 ]
         IN  discoverLoop_KeepsKnown(holders, i + 1, tokenMint, tokenPrice,
                config, t,
                IF isWhale(usdValue, config)
                THEN [ registry |-> RegistrySet(acc.registry, tokenMint,
                                                holder.address, profile),
                       whales   |-> Append(acc.whales, profile) ]
                ELSE acc)

\* the loop of discoverWhales from index i on; acc is [registry, whales]
RECURSIVE discoverLoop(_, _, _, _, _, _, _)
discoverLoop(holders, i, tokenMint, tokenPrice, config, t, acc) ==
    IF i > Len(holders) THEN acc
    ELSE LET holder == holders[i]
             usdValue == holder.uiAmount * tokenPrice
             profile == [ address       |-> holder.address,
                          tokenMint     |-> tokenMint,
                          holdings      |-> holder.uiAmount,
                          usdValue      |-> usdValue,
                          firstSeen     |-> t,
                          lastActivity  |-> t,
                          behavior      |-> "unknown",
                          recentTxCount |-> 0 ]
         IN  discoverLoop(holders, i + 1, tokenMint, tokenPrice, config, t,
                IF isWhale(usdValue, config)
                THEN [ registry |-> RegistrySet(acc.registry, tokenMint,
                                                holder.address, profile),
                       whales   |-> Append(acc.whales, profile) ]
                ELSE acc)

\* discoverWhales from the answer of the provider on
discoverWhales(registry, value, tokenMint, tokenPrice, config, t) ==
    discoverLoop(getLargestTokenHolders(value, DiscoverLimit), 1, tokenMint,
                 tokenPrice, config, t, [registry |-> registry, whales |-> <<>>])

getTrackedWhales(registry, tokenMint) ==
    IF RegistryHas(registry, tokenMint)
    THEN MapValues(registry[tokenMint]) ELSE <<>>

getWhaleProfile(registry, tokenMint, walletAddress) ==
    IF ~RegistryHas(registry, tokenMint) THEN Null
    ELSE MapGet(registry[tokenMint], walletAddress)

\* Object.assign(target, source): the fields of source overwrite or extend
\* those of target
ObjectAssign(target, source) ==
    [f \in DOMAIN target \cup DOMAIN source |->
        IF f \in DOMAIN source THEN source[f] ELSE target[f]]

\* updateWhaleProfile creating the entry it does not find
updateWhaleProfile_Creates(registry, tokenMint, walletAddress, update, t) ==
    LET profile == getWhaleProfile(registry, tokenMint, walletAddress)
        base == IF profile = Null
                THEN [address |-> walletAddress, tokenMint |-> tokenMint]
                ELSE profile
    IN  RegistrySet(registry, tokenMint, walletAddress,
            ObjectAssign(ObjectAssign(base, update), [lastActivity |-> t]))

\* updateWhaleProfile: the registry after the call
updateWhaleProfile(registry, tokenMint, walletAddress, update, t) ==
    IF ~RegistryHas(registry, tokenMint) THEN registry
    ELSE LET profile == MapGet(registry[tokenMint], walletAddress)
         IN  IF profile = Null THEN registry
             ELSE RegistrySet(registry, tokenMint, walletAddress,
                    ObjectAssign(ObjectAssign(profile, update),
                                 [lastActivity |-> t]))

\* the patterns array of analyzeWhale
PatternsOf(accumulation, distribution) ==
    (IF accumulation # Null THEN <<accumulation>> ELSE <<>>)
    \o (IF distribution # Null THEN <<distribution>> ELSE <<>>)

\* analyzeWhale adding the parsed transactions to those it had cached
analyzeWhale_Merges(registry, history, rawTxs, walletAddress, tokenMint, tokenPrice, config, t) ==
    LET transactions ==
            [i \in DOMAIN rawTxs |-> parseTransactionData(rawTxs[i], walletAddress)]
        behavior == analyzeWhaleBehavior(walletAddress, tokenMint,
                                         transactions, config, t)
        accumulation == detectAccumulationPattern(walletAddress, tokenMint,
                            transactions, tokenPrice, config, t)
        distribution == detectDistributionPattern(walletAddress, tokenMint,
                            transactions, tokenPrice, config, t)
    IN  [ registry |-> updateWhaleProfile(registry, tokenMint, walletAddress,
                          [ behavior      |-> behavior,
                            recentTxCount |-> Len(transactions) ], t),
          history  |-> [w \in DOMAIN history \cup {walletAddress} |->
                          IF w # walletAddress THEN history[w]
                          ELSE IF w \in DOMAIN history
                          THEN history[w] \o transactions
                          ELSE transactions],
          returned |-> [ behavior |-> behavior,
                         patterns |-> PatternsOf(accumulation, distribution) ] ]

\* analyzeWhale from the answer of the provider on: the registry and the
\* history cache after the call, and what it returns
analyzeWhale(registry, history, rawTxs, walletAddress, tokenMint, tokenPrice, config, t) ==
    LET transactions ==
            [i \in DOMAIN rawTxs |-> parseTransactionData(rawTxs[i], walletAddress)]
        behavior == analyzeWhaleBehavior(walletAddress, tokenMint,
                                         transactions, config, t)
        accumulation == detectAccumulationPattern(walletAddress, tokenMint,
                            transactions, tokenPrice, config, t)
        distribution == detectDistributionPattern(walletAddress, tokenMint,
                            transactions, tokenPrice, config, t)
    IN  [ registry |-> updateWhaleProfile(registry, tokenMint, walletAddress,
                          [ behavior      |-> behavior,
                            recentTxCount |-> Len(transactions) ], t),
          history  |-> [w \in DOMAIN history \cup {walletAddress} |->
                          IF w = walletAddress THEN transactions
                          ELSE history[w]],
          returned |-> [ behavior |-> behavior,
                         patterns |-> PatternsOf(accumulation, distribution) ] ]

\* getWhaleActivitySummary
getWhaleActivitySummary(registry, tokenMint) ==
    LET whales == getTrackedWhales(registry, tokenMint)
        Accumulating(w) == w.behavior = "accumulating"
        Distributing(w) == w.behavior = "distributing"
        Holding(w) == w.behavior = "holding"
    IN  [ totalWhales      |-> Len(whales),
          accumulating     |-> Len(SelectSeq(whales, Accumulating)),
          distributing     |-> Len(SelectSeq(whales, Distributing)),
          holding          |-> Len(SelectSeq(whales, Holding)),
          totalHoldingsUsd |-> SumUsd(whales) ]

-----------------------------------------------------------------------------
(* Inputs of the model *)

USDC == "USDC"
Tokens == {"T1", "T2"}
Whale1 == "whale1CCCCCC"
Sig1 == "sig1AAAAAAAA"
Sig2 == "sig2BBBBBBBB"

\* a config that tracks movements from $5,000 on
LowConfig == [DEFAULT_WHALE_CONFIG EXCEPT !.minMovementUsd = 5000]

\* TokenHolder as parseTransactionData builds it (decimals always 0)
Leg(mint, uiAmount) ==
    [mint |-> mint, amount |-> uiAmount, decimals |-> 0, uiAmount |-> uiAmount]

ParsedTx(signature, timestamp, type, tokenIn, tokenOut, transfer) ==
    [ signature |-> signature, timestamp |-> timestamp, type |-> type,
      source |-> "unknown", fee |-> 0, success |-> TRUE,
      tokenIn |-> tokenIn, tokenOut |-> tokenOut, transfer |-> transfer ]

Buy(sig, ts, mint, amt) ==
    ParsedTx(sig, ts, "swap", Leg(USDC, amt * 10), Leg(mint, amt), Null)
Sell(sig, ts, mint, amt) ==
    ParsedTx(sig, ts, "swap", Leg(mint, amt), Leg(USDC, amt * 10), Null)
Transfer(sig, ts, mint, amt) ==
    ParsedTx(sig, ts, "transfer", Null, Null, Leg(mint, amt))

\* ages of a transaction at the time it is handed in, in seconds: just
\* made, exactly at the age limit, one day past it
AgesSec == {0, 7 * 24 * 60 * 60, 8 * 24 * 60 * 60}

TxTimes(t) == {(t \div 1000) - a : a \in AgesSec}

\* transactions of the store specification
StoreTxs(t) ==
    UNION {{Buy(Sig1, ts, "T1", 2000), Transfer(Sig2, ts, "T2", 1000)}
            : ts \in TxTimes(t)}

\* the transactions its processTransactions calls are made of: a fresh and
\* a stale purchase
StoreBatchTxs(t) ==
    {Buy(Sig1, (t \div 1000) - a, "T1", 2000) : a \in {0, 8 * 24 * 60 * 60}}

\* every movement createMovement makes of them
MovementsOf(txs, config, t) ==
    {createMovement(tx, Whale1, k, 10, config, t) :
        tx \in txs, k \in Tokens} \ {Null}

\* all batches of 1..MaxBatch transactions
Batches(txs) == UNION {[1..n -> txs] : n \in 1..MaxBatch}

-----------------------------------------------------------------------------
(* Actions *)

StartNow == 10 * DAY_MS

\* no HTTP request was made
HttpIdle == http = Null

\* no parseTransactionData call was made
ParseIdle == rawTx = Null /\ parsed = Null

\* the registry and the history cache as constructed, no call in flight
WhaleIdle ==
    /\ whaleRegistry = <<>>
    /\ transactionHistory = <<>>
    /\ pending = {}
    /\ lastResult = Null
    /\ eventLog = [kept |-> FALSE, events |-> <<>>]

Init ==
    /\ now = StartNow
    /\ recentMovements = <<>>
    /\ movementsByToken = <<>>
    /\ insertLog = <<>>
    /\ lastOp = "init"
    /\ lastCall = Null
    /\ detectArgs = Null
    /\ detected = Null
    /\ ParseIdle
    /\ WhaleIdle
    /\ HttpIdle

\* reverse of a sequence
Reverse(s) == [i \in 1..Len(s) |-> s[Len(s) + 1 - i]]

\* recordMovement, explored up to `inserts` calls between two clears
RecordMovementWithin(m, inserts) ==
    /\ Len(insertLog) < inserts
    /\ LET after == recordMovement(TheStore, m, now) IN
        /\ recentMovements' = after.recent
        /\ movementsByToken' = after.byToken
    /\ insertLog' = <<m>> \o insertLog
    /\ lastOp' = "recordMovement"
    /\ lastCall' = Null
    /\ UNCHANGED <<now, detectVars, parseVars, whaleVars, httpVars>>

RecordMovement(m) == RecordMovementWithin(m, MaxInserts)

ProcessTransactions(txs, whale, tokenMint, tokenPrice, config) ==
    LET r == processTransactions(TheStore, txs, whale, tokenMint,
                                 tokenPrice, config, now)
    IN  /\ Len(insertLog) + Len(r.recorded) <= MaxInserts
        /\ recentMovements' = r.store.recent
        /\ movementsByToken' = r.store.byToken
        /\ insertLog' = Reverse(r.recorded) \o insertLog
        /\ lastOp' = "processTransactions"
        /\ lastCall' = [ txs |-> txs, whale |-> whale, tokenMint |-> tokenMint,
                         tokenPrice |-> tokenPrice, config |-> config,
                         returned |-> r.recorded ]
        /\ UNCHANGED <<now, detectVars, parseVars, whaleVars, httpVars>>

ClearMovements ==
    /\ recentMovements' = <<>>
    /\ movementsByToken' = <<>>
    /\ insertLog' = <<>>
    /\ lastOp' = "clearMovements"
    /\ lastCall' = Null
    /\ UNCHANGED <<now, detectVars, parseVars, whaleVars, httpVars>>

\* time passes between two calls
Tick ==
    /\ now < StartNow + MaxTicks * DAY_MS
    /\ now' = now + DAY_MS
    /\ lastOp' = "tick"
    /\ lastCall' = Null
    /\ UNCHANGED <<recentMovements, movementsByToken, insertLog, detectVars,
                 parseVars, whaleVars, httpVars>>

Next ==
    \/ \E m \in MovementsOf(StoreTxs(now), DEFAULT_WHALE_CONFIG, now) :
          RecordMovement(m)
    \/ \E txs \in Batches(StoreBatchTxs(now)) :
          ProcessTransactions(txs, Whale1, "T1", 10, DEFAULT_WHALE_CONFIG)
    \/ ClearMovements
    \/ Tick

Spec == Init /\ [][Next]_vars

-----------------------------------------------------------------------------
(* Movement store: pruning *)

\* a prune pass has run at the current time: recordMovement was called by
\* the operation that returned last
PruneJustRan ==
    \/ lastOp = "recordMovement"
    \/ lastOp = "processTransactions" /\ Len(lastCall.returned) > 0

\* older than the maximum age at the current time
IsStale(m) == m.timestamp < now - MAX_MOVEMENT_AGE_MS

Elems(s) == {s[i] : i \in DOMAIN s}

\* everything the five list queries return, for the default limits and the
\* arguments of the model
QueryResults ==
    UNION ( {Elems(getMovementsByToken(k, 50)) : k \in Tokens}
       \cup {Elems(getAllRecentMovements(100))}
       \cup {Elems(getMovementsByWhale(Whale1, 50))}
       \cup {Elems(getMovementsByType(ty, 50)) : ty \in {"swap", "transfer"}}
       \cup {Elems(getLargeMovements(usd, 50)) : usd \in {0, 10000}} )

\* the movements recorded for token k since the last clear, newest first
LogOf(k) ==
    LET Test(m) == m.tokenMint = k IN SelectSeq(insertLog, Test)

\* C1: after a recordMovement call has returned, no query returns a movement
\* whose timestamp is more than MAX_MOVEMENT_AGE_MS before the current time,
\* whatever the order of insertion.
C1_NoStaleAfterPrune ==
    PruneJustRan => \A m \in QueryResults : ~IsStale(m)

\* C2: every per-token list holds at most MAX_MOVEMENTS_PER_TOKEN movements
\* when recordMovement, processTransactions or clearMovements returns.
C2_PerTokenCap ==
    \A k \in DOMAIN movementsByToken :
        Len(movementsByToken[k]) <= MAX_MOVEMENTS_PER_TOKEN

\* a token for which more than the cap was recorded and whose list is full
C2_Witness ==
    \E k \in DOMAIN movementsByToken :
        /\ Len(LogOf(k)) > MAX_MOVEMENTS_PER_TOKEN
        /\ Len(movementsByToken[k]) = MAX_MOVEMENTS_PER_TOKEN

\* C3 as stated: once more than MAX_MOVEMENTS_PER_TOKEN movements were
\* recorded for a token, its list is exactly the MAX_MOVEMENTS_PER_TOKEN most
\* recently recorded ones, newest first.
C3_Original ==
    \A k \in Tokens :
        Len(LogOf(k)) > MAX_MOVEMENTS_PER_TOKEN
        => TokenList(k) = Slice(LogOf(k), MAX_MOVEMENTS_PER_TOKEN)

\* C3 amended: the same, provided none of the MAX_MOVEMENTS_PER_TOKEN + 1
\* most recently recorded movements of the token is older than
\* MAX_MOVEMENT_AGE_MS.
C3_Amended ==
    \A k \in Tokens :
        ( /\ Len(LogOf(k)) > MAX_MOVEMENTS_PER_TOKEN
          /\ \A i \in 1..(MAX_MOVEMENTS_PER_TOKEN + 1) : ~IsStale(LogOf(k)[i]) )
        => TokenList(k) = Slice(LogOf(k), MAX_MOVEMENTS_PER_TOKEN)

\* more than the cap recorded for one token, none of the last cap+1 stale,
\* and an older stale one among them before
C3_Witness ==
    \E k \in Tokens :
        /\ Len(LogOf(k)) > MAX_MOVEMENTS_PER_TOKEN
        /\ \A i \in 1..(MAX_MOVEMENTS_PER_TOKEN + 1) : ~IsStale(LogOf(k)[i])
        /\ Len(TokenList(k)) = MAX_MOVEMENTS_PER_TOKEN

\* the movement of the recordMovement call that returned last
LastRecorded == insertLog[1]

IsHeadOf(m, list) == Len(list) > 0 /\ list[1] = m

\* C4 as stated: right after recordMovement(m), m is the first element of
\* getMovementsByToken(m.tokenMint) and of getAllRecentMovements().
C4_Original ==
    lastOp = "recordMovement" =>
        /\ IsHeadOf(LastRecorded, getMovementsByToken(LastRecorded.tokenMint, 50))
        /\ IsHeadOf(LastRecorded, getAllRecentMovements(100))

\* C4 amended: the same for every movement whose timestamp is not more than
\* MAX_MOVEMENT_AGE_MS before the time of the call.
C4_Amended ==
    (lastOp = "recordMovement" /\ ~IsStale(LastRecorded)) =>
        /\ IsHeadOf(LastRecorded, getMovementsByToken(LastRecorded.tokenMint, 50))
        /\ IsHeadOf(LastRecorded, getAllRecentMovements(100))

\* a movement exactly at the age limit recorded into a store that already
\* held movements of its token
C4_Witness ==
    /\ lastOp = "recordMovement"
    /\ LastRecorded.timestamp = now - MAX_MOVEMENT_AGE_MS
    /\ Len(TokenList(LastRecorded.tokenMint)) > 1
    /\ IsHeadOf(LastRecorded, getAllRecentMovements(100))

-----------------------------------------------------------------------------
(* processTransactions and the significance threshold *)

\* transactions of the threshold specification, just made: worth $20,000,
\* $10,000 and $5,000 of T1 at $10, and one that does not involve T1
ProcessTxs(t) ==
    { Buy(Sig1, t \div 1000, "T1", 2000),
      Buy(Sig2, t \div 1000, "T1", 1000),
      Sell(Sig1, t \div 1000, "T1", 500),
      Transfer(Sig2, t \div 1000, "T2", 1000) }

Configs == {DEFAULT_WHALE_CONFIG, LowConfig}

NextProcess ==
    \/ \E txs \in Batches(ProcessTxs(now)), config \in Configs :
          ProcessTransactions(txs, Whale1, "T1", 10, config)
    \/ ClearMovements

SpecProcess == Init /\ [][NextProcess]_vars

\* the display amount of the tracked token that a transaction of the model
\* moves, and its value
TrackedAmount(tx, tokenMint) ==
    IF MintIs(tx.tokenOut, tokenMint) THEN tx.tokenOut.uiAmount
    ELSE IF MintIs(tx.tokenIn, tokenMint) THEN tx.tokenIn.uiAmount
    ELSE IF MintIs(tx.transfer, tokenMint) THEN tx.transfer.uiAmount
    ELSE -1

Involves(tx, tokenMint) == TrackedAmount(tx, tokenMint) >= 0

\* movement m was made of transaction tx
MadeOf(m, tx, tokenMint) ==
    /\ m.signature = tx.signature
    /\ m.timestamp = tx.timestamp * 1000
    /\ m.tokenMint = tokenMint
    /\ m.amount = TrackedAmount(tx, tokenMint)

\* what the last processTransactions call handed to recordMovement, and
\* what had been recorded before it
RecordedByLastCall == SubSeq(insertLog, 1, Len(lastCall.returned))
RecordedBefore ==
    SubSeq(insertLog, Len(lastCall.returned) + 1, Len(insertLog))

StoredMovements ==
    Elems(recentMovements)
        \cup UNION {Elems(movementsByToken[k]) : k \in DOMAIN movementsByToken}

\* C5: every movement processTransactions returns and records has
\* usdValue = amount * tokenPrice >= config.minMovementUsd; a transaction
\* worth exactly the threshold is returned and stored, one worth less is
\* neither returned nor put into the store by the call.
C5_Threshold ==
    lastCall # Null =>
      LET c == lastCall
          minUsd == c.config.minMovementUsd
      IN  /\ \A m \in Elems(c.returned) \cup Elems(RecordedByLastCall) :
                /\ m.usdValue = m.amount * c.tokenPrice
                /\ m.usdValue >= minUsd
          /\ \A i \in DOMAIN c.txs :
                LET tx == c.txs[i]
                    usd == TrackedAmount(tx, c.tokenMint) * c.tokenPrice
                IN  /\ (Involves(tx, c.tokenMint) /\ usd = minUsd) =>
                          \E m \in Elems(c.returned) :
                              /\ MadeOf(m, tx, c.tokenMint)
                              /\ m \in Elems(recentMovements)
                              /\ m \in Elems(TokenList(c.tokenMint))
                    /\ (Involves(tx, c.tokenMint) /\ usd < minUsd) =>
                          \A m \in Elems(c.returned) \cup StoredMovements :
                              MadeOf(m, tx, c.tokenMint)
                                  => m \in Elems(RecordedBefore)

\* one call with a transaction worth exactly the threshold and one worth
\* less: only the first is returned
C5_Witness ==
    /\ lastCall # Null
    /\ Len(lastCall.txs) = 2
    /\ Len(lastCall.returned) = 1
    /\ lastCall.returned[1].usdValue = lastCall.config.minMovementUsd
    /\ \E i \in DOMAIN lastCall.txs :
          /\ Involves(lastCall.txs[i], lastCall.tokenMint)
          /\ TrackedAmount(lastCall.txs[i], lastCall.tokenMint)
                 * lastCall.tokenPrice < lastCall.config.minMovementUsd

-----------------------------------------------------------------------------
(* Net flow *)

\* transactions of the flow specification: $20,000 bought, $10,000 and
\* $5,000 sold, just now or two days ago, and a swap of T1 for T2
FlowTxs(t) ==
    UNION {{ Buy(Sig1, ts, "T1", 2000),
             Sell(Sig2, ts, "T1", 1000),
             Sell(Sig1, ts, "T1", 500) }
            : ts \in {t \div 1000, (t \div 1000) - 2 * 24 * 60 * 60}}
    \cup {ParsedTx(Sig2, t \div 1000, "swap",
                   Leg("T1", 1000), Leg("T2", 1000), Null)}

NextFlow ==
    \/ \E m \in MovementsOf(FlowTxs(now), LowConfig, now) : RecordMovement(m)
    \/ ClearMovements
    \/ Tick

SpecFlow == Init /\ [][NextFlow]_vars

Windows == {DEFAULT_WINDOW_MS, 3 * DAY_MS}

\* the positions of token k's list inside the trailing window, by direction
WindowIndexes(k, windowMs, direction) ==
    {i \in DOMAIN TokenList(k) :
        /\ TokenList(k)[i].timestamp >= now - windowMs
        /\ TokenList(k)[i].direction = direction}

RECURSIVE UsdOver(_, _)
UsdOver(list, indexes) ==
    IF indexes = {} THEN 0
    ELSE LET i == CHOOSE j \in indexes : TRUE
         IN  list[i].usdValue + UsdOver(list, indexes \ {i})

ExpectedNetFlowUsd(k, windowMs) ==
    UsdOver(TokenList(k), WindowIndexes(k, windowMs, "in"))
        - UsdOver(TokenList(k), WindowIndexes(k, windowMs, "out"))

\* the window of token k holds one $20,000 inflow and one $5,000 outflow
Scenario20kIn5kOut(k, windowMs) ==
    /\ \E i \in WindowIndexes(k, windowMs, "in") :
          /\ WindowIndexes(k, windowMs, "in") = {i}
          /\ TokenList(k)[i].usdValue = 20000
    /\ \E i \in WindowIndexes(k, windowMs, "out") :
          /\ WindowIndexes(k, windowMs, "out") = {i}
          /\ TokenList(k)[i].usdValue = 5000

\* C10: getNetFlow returns inflow USD minus outflow USD over the token's
\* movements inside the trailing window, bullish iff that is above 10,000,
\* bearish iff below -10,000, else neutral; one $20,000 inflow and one
\* $5,000 outflow give 15,000 and bullish.
C10_NetFlow ==
    \A k \in Tokens, windowMs \in Windows :
        LET r == getNetFlow(k, windowMs) IN
        /\ r.netFlowUsd = ExpectedNetFlowUsd(k, windowMs)
        /\ r.sentiment = "bullish" <=> r.netFlowUsd > 10000
        /\ r.sentiment = "bearish" <=> r.netFlowUsd < -10000
        /\ r.sentiment = "neutral"
              <=> (r.netFlowUsd >= -10000 /\ r.netFlowUsd <= 10000)
        /\ Scenario20kIn5kOut(k, windowMs) =>
              (r.netFlowUsd = 15000 /\ r.sentiment = "bullish")

\* the scenario inside the 24 h window, with a movement of another token
\* in the store
C10_Witness ==
    /\ Scenario20kIn5kOut("T1", DEFAULT_WINDOW_MS)
    /\ Len(TokenList("T2")) > 0
    /\ getNetFlow("T1", DEFAULT_WINDOW_MS).netFlowUsd = 15000

-----------------------------------------------------------------------------
(* Pattern detection *)

TrackedMint == "T1"

\* transactions of the detector specification: purchases and sales of the
\* tracked token inside the window, a purchase an hour ago and one two
\* days ago
DetectTxs(t) ==
    {Buy(Sig1, t \div 1000, TrackedMint, a) : a \in {0, 95, 100, 105, 10000}}
    \cup {Sell(Sig2, t \div 1000, TrackedMint, a) : a \in {0, 100, 10000}}
    \cup {Buy(Sig2, (t \div 1000) - 60 * 60, TrackedMint, 10000)}
    \cup {Buy(Sig2, (t \div 1000) - 2 * 24 * 60 * 60, TrackedMint, 10000)}

DetectConfigs ==
    { DEFAULT_WHALE_CONFIG,
      [DEFAULT_WHALE_CONFIG EXCEPT !.minMovementUsd = 1000],
      [DEFAULT_WHALE_CONFIG EXCEPT !.minMovementUsd = 0],
      [DEFAULT_WHALE_CONFIG EXCEPT !.minMovementUsd = 1000,
                                   !.minPatternTxCount = 2] }

InitDetect ==
    /\ now = StartNow
    /\ recentMovements = <<>>
    /\ movementsByToken = <<>>
    /\ insertLog = <<>>
    /\ lastOp = "init"
    /\ lastCall = Null
    /\ detectArgs \in
          [ transactions : UNION {[1..n -> DetectTxs(StartNow)] : n \in 0..MaxTxs},
            tokenPrice   : {10},
            config       : DetectConfigs ]
    /\ detected = Null
    /\ ParseIdle
    /\ WhaleIdle
    /\ HttpIdle

DetectAccumulation ==
    /\ detected' =
          [ fn      |-> "detectAccumulationPattern",
            pattern |-> detectAccumulationPattern(Whale1, TrackedMint,
                            detectArgs.transactions, detectArgs.tokenPrice,
                            detectArgs.config, now) ]
    /\ lastOp' = "detectAccumulationPattern"
    /\ UNCHANGED <<now, storeVars, detectArgs, parseVars, whaleVars, httpVars>>

DetectDistribution ==
    /\ detected' =
          [ fn      |-> "detectDistributionPattern",
            pattern |-> detectDistributionPattern(Whale1, TrackedMint,
                            detectArgs.transactions, detectArgs.tokenPrice,
                            detectArgs.config, now) ]
    /\ lastOp' = "detectDistributionPattern"
    /\ UNCHANGED <<now, storeVars, detectArgs, parseVars, whaleVars, httpVars>>

NextDetect == DetectAccumulation \/ DetectDistribution

SpecDetect == InitDetect /\ [][NextDetect]_vars

\* the leg a detector looks at: what the wallet received (accumulation) or
\* gave (distribution)
DetectLeg(tx) ==
    IF detected.fn = "detectAccumulationPattern" THEN tx.tokenOut ELSE tx.tokenIn

\* positions of the swaps inside the trailing window whose leg is of the
\* tracked mint, for the detector that ran last
Qualifying ==
    {i \in DOMAIN detectArgs.transactions :
        LET tx == detectArgs.transactions[i] IN
        /\ tx.type = "swap"
        /\ tx.timestamp * 1000 >= now - detectArgs.config.patternWindowMs
        /\ DetectLeg(tx) # Null
        /\ DetectLeg(tx).mint = TrackedMint}

SizeAt(i) == DetectLeg(detectArgs.transactions[i]).uiAmount

\* the sum of f[i] over the indexes
RECURSIVE SumOver(_, _)
SumOver(indexes, f) ==
    IF indexes = {} THEN 0
    ELSE LET i == CHOOSE j \in indexes : TRUE
         IN  f[i] + SumOver(indexes \ {i}, f)

Count == Cardinality(Qualifying)
SizeTotal == SumOver(Qualifying, [i \in Qualifying |-> SizeAt(i)])
SizeSquares == SumOver(Qualifying, [i \in Qualifying |-> SizeAt(i) * SizeAt(i)])
\* Count^2 times the population variance of the trade sizes
ScaledVariance == Count * SizeSquares - SizeTotal * SizeTotal

PatternReturned == detected # Null /\ detected.pattern # Null

\* C6: every returned pattern has a confidence c with 0 <= c <= 1.
C6_ConfidenceRange ==
    PatternReturned =>
        /\ JsLeq(JsNum(0), detected.pattern.confidence)
        /\ JsLeq(detected.pattern.confidence, JsNum(100))

\* C7 as stated: when variance / mean of the qualifying trade sizes exceeds
\* 1, the confidence of the returned pattern is exactly 0.
C7_Original ==
    (PatternReturned /\ SizeTotal > 0 /\ ScaledVariance > Count * SizeTotal)
        => detected.pattern.confidence = JsNum(0)

\* C7 amended: when standard deviation / mean (the coefficient of variation)
\* of the qualifying trade sizes exceeds 1, the confidence is exactly 0.
C7_Amended ==
    (PatternReturned /\ SizeTotal > 0 /\ ScaledVariance > SizeTotal * SizeTotal)
        => detected.pattern.confidence = JsNum(0)

C7_Witness ==
    /\ PatternReturned
    /\ SizeTotal > 0
    /\ ScaledVariance > SizeTotal * SizeTotal
    /\ detected.pattern.confidence = JsNum(0)

\* C8: a detector returns null whenever fewer than minPatternTxCount swaps
\* inside the window have the tracked mint on its leg, however large their
\* combined USD value.
C8_TooFewIsNull ==
    (detected # Null /\ Count < detectArgs.config.minPatternTxCount)
        => detected.pattern = Null

\* too few qualifying swaps, worth more than ten times the volume gate, and
\* enough swaps of the token in the history when the window is ignored
C8_Witness ==
    /\ detected # Null
    /\ Count < detectArgs.config.minPatternTxCount
    /\ detectArgs.config.minMovementUsd > 0
    /\ SizeTotal * detectArgs.tokenPrice
          > 10 * detectArgs.config.minMovementUsd
               * detectArgs.config.minPatternTxCount
    /\ Len(detectArgs.transactions) >= detectArgs.config.minPatternTxCount
    /\ detected.pattern = Null

\* the qualifying trade sizes are a, b and c
SizesAre(a, b, c) ==
    \E i, j, k \in Qualifying :
        /\ Qualifying = {i, j, k}
        /\ Count = 3
        /\ SizeAt(i) = a /\ SizeAt(j) = b /\ SizeAt(k) = c

AccumulationRan ==
    /\ detected # Null
    /\ detected.fn = "detectAccumulationPattern"
    /\ detectArgs.tokenPrice = 10
    /\ detectArgs.config.minPatternTxCount = 3

\* one of the three amounts replaced by 10,000
OneReplaced ==
    \/ SizesAre(10000, 105, 95)
    \/ SizesAre(100, 10000, 95)
    \/ SizesAre(100, 105, 10000)

\* C9 as stated: with purchases of 100, 105 and 95 at $10,
\* minPatternTxCount = 3 and the scenario's minMovementUsd = 10,000,
\* detectAccumulationPattern returns a pattern with txCount 3,
\* totalUsdValue 3,000 and a confidence close to 1.
C9_Original ==
    (AccumulationRan /\ detectArgs.config.minMovementUsd = 10000
        /\ SizesAre(100, 105, 95))
    => /\ detected.pattern # Null
       /\ detected.pattern.txCount = 3
       /\ detected.pattern.totalUsdValue = 3000
       /\ JsLeq(JsNum(90), detected.pattern.confidence)

\* C9 amended: the same with a minMovementUsd of at most 1,000 (so that the
\* volume gate 3 * minMovementUsd is at most $3,000), the confidence being
\* at least 0.9; with one amount replaced by 10,000 the pattern is returned
\* for every minMovementUsd up to 10,000 with a confidence of at most 0.1.
C9_Amended ==
    /\ (AccumulationRan /\ detectArgs.config.minMovementUsd <= 1000
            /\ SizesAre(100, 105, 95))
       => /\ detected.pattern # Null
          /\ detected.pattern.txCount = 3
          /\ detected.pattern.totalUsdValue = 3000
          /\ JsLeq(JsNum(90), detected.pattern.confidence)
    /\ (AccumulationRan /\ detectArgs.config.minMovementUsd <= 10000
            /\ OneReplaced)
       => /\ detected.pattern # Null
          /\ detected.pattern.txCount = 3
          /\ JsLeq(detected.pattern.confidence, JsNum(10))

C9_Witness ==
    /\ AccumulationRan
    /\ detectArgs.config.minMovementUsd = 1000
    /\ SizesAre(100, 105, 95)
    /\ detected.pattern # Null
    /\ detected.pattern.totalUsdValue = 3000

-----------------------------------------------------------------------------
(* Movement statistics *)

\* tokens asked about: those of the model and one never recorded
AskedTokens == Tokens \cup {"T3"}

\* the positions of token k's list inside the trailing window
InsideWindow(k, windowMs) ==
    {i \in DOMAIN TokenList(k) : TokenList(k)[i].timestamp >= now - windowMs}

\* the quotient <<numerator, denominator>> is the number total / n
QuotientIs(q, total, n) == q[2] # 0 /\ q[1] * n = total * q[2]
\* the quotient is the number 0
QuotientIsZero(q) == q[2] # 0 /\ q[1] = 0

\* C11: over the token's movements inside the trailing window,
\* getMovementStats returns totalMovements = inflows + outflows,
\* totalVolumeUsd = inflowVolumeUsd + outflowVolumeUsd, largestMovement a
\* movement of maximal usdValue (null when there is none) and
\* averageMovementUsd = totalVolumeUsd / totalMovements, which is the number
\* 0 when the token is unknown or every movement lies outside the window.
C11_Stats ==
    \A k \in AskedTokens, windowMs \in Windows :
        LET s == getMovementStats(k, windowMs)
            inside == InsideWindow(k, windowMs)
        IN  /\ s.totalMovements = Cardinality(inside)
            /\ s.totalMovements = s.inflows + s.outflows
            /\ s.totalVolumeUsd = UsdOver(TokenList(k), inside)
            /\ s.totalVolumeUsd = s.inflowVolumeUsd + s.outflowVolumeUsd
            /\ inside = {} =>
                  /\ s.largestMovement = Null
                  /\ QuotientIsZero(s.averageMovementUsd)
            /\ inside # {} =>
                  /\ \E i \in inside : s.largestMovement = TokenList(k)[i]
                  /\ \A i \in inside :
                        TokenList(k)[i].usdValue <= s.largestMovement.usdValue
                  /\ QuotientIs(s.averageMovementUsd, s.totalVolumeUsd,
                                s.totalMovements)

\* T1 has two movements of different value, both older than 24 h and
\* younger than three days, and T2 is unknown to the store
C11_Witness ==
    /\ Len(TokenList("T1")) = 2
    /\ TokenList("T1")[1].usdValue # TokenList("T1")[2].usdValue
    /\ getMovementStats("T1", DEFAULT_WINDOW_MS).totalMovements = 0
    /\ getMovementStats("T1", 3 * DAY_MS).totalMovements = 2
    /\ "T2" \notin DOMAIN movementsByToken

-----------------------------------------------------------------------------
(* Parsing: classification and transfer legs *)

ParseTypes ==
    { Null, Str(<<>>),
      Str(<<"s", "w", "a", "p">>),
      Str(<<"S", "T", "A", "K", "E">>),
      Str(<<"U", "n", "S", "t", "a", "k", "e">>),
      Str(<<"W", "I", "T", "H", "D", "R", "A", "W">>),
      Str(<<"t", "r", "a", "n", "s", "f", "e", "r">>),
      Str(<<"S", "W", "A", "P", "_", "S", "T", "A", "K", "E">>),
      Str(<<"B", "U", "R", "N">>) }

ParseSources ==
    { Null, Str(<<>>),
      Str(<<"j", "u", "p", "i", "t", "e", "r">>),
      Str(<<"j", "u", "p", "i", "t", "e", "r", "/", "j", "i", "t", "o">>),
      Str(<<"R", "A", "Y", "D", "I", "U", "M">>),
      Str(<<"M", "A", "R", "I", "N", "A", "D", "E">>),
      Str(<<"J", "i", "t", "o">>),
      Str(<<"S", "Y", "S", "T", "E", "M">>) }

Other == "other3EEEEEE"

TokenTransfer(from, to, mint, tokenAmount) ==
    [ fromUserAccount |-> from, toUserAccount |-> to,
      mint |-> mint, tokenAmount |-> tokenAmount ]

\* token transfers to the wallet, from it, from it to itself, and between
\* two other accounts
ParseTransfers ==
    { TokenTransfer(Other, Whale1, "T1", 100),
      TokenTransfer(Other, Whale1, "T2", 70),
      TokenTransfer(Whale1, Other, USDC, 50),
      TokenTransfer(Whale1, Whale1, "T1", 10),
      TokenTransfer(Other, Other, USDC, 5) }

ParseTokenTransfers ==
    {Null} \cup {Arr(l) : l \in UNION {[1..n -> ParseTransfers] : n \in 0..MaxTransfers}}

ParseNativeTransfers ==
    { Null, Arr(<<>>),
      Arr(<<[fromUserAccount |-> Whale1, toUserAccount |-> Other, amount |-> 5000]>>) }

RawTxs ==
    [ signature       : {Sig1},
      timestamp       : {StartNow \div 1000},
      type            : ParseTypes,
      source          : ParseSources,
      fee             : {5000},
      tokenTransfers  : ParseTokenTransfers,
      nativeTransfers : ParseNativeTransfers ]

InitParse ==
    /\ now = StartNow
    /\ recentMovements = <<>>
    /\ movementsByToken = <<>>
    /\ insertLog = <<>>
    /\ lastOp = "init"
    /\ lastCall = Null
    /\ detectArgs = Null
    /\ detected = Null
    /\ rawTx \in [tx : RawTxs, trackedWallet : {Whale1}]
    /\ parsed = Null
    /\ WhaleIdle
    /\ HttpIdle

ParseTransactionData ==
    /\ parsed' = parseTransactionData(rawTx.tx, rawTx.trackedWallet)
    /\ lastOp' = "parseTransactionData"
    /\ UNCHANGED <<now, storeVars, detectVars, rawTx, whaleVars, httpVars>>

NextParse == ParseTransactionData

SpecParse == InitParse /\ [][NextParse]_vars

\* c is the letter K in either case
SameLetter(c, K) ==
    c = K \/ \E i \in DOMAIN UpperCase : UpperCase[i] = K /\ LowerCase[i] = c

\* the label contains the keyword, whatever the case of its letters
Has(label, keyword) ==
    /\ label # Null
    /\ \E offset \in 0..(Len(label.chars) - Len(keyword)) :
          \A j \in DOMAIN keyword : SameLetter(label.chars[offset + j], keyword[j])

NoLabel(label) == label = Null \/ label.chars = <<>>

TokenTransferCount ==
    IF rawTx.tx.tokenTransfers = Null THEN 0
    ELSE Len(rawTx.tx.tokenTransfers.items)
NativeTransferCount ==
    IF rawTx.tx.nativeTransfers = Null THEN 0
    ELSE Len(rawTx.tx.nativeTransfers.items)

SwapRule ==
    \/ Has(rawTx.tx.type, SWAP)
    \/ Has(rawTx.tx.source, JUPITER)
    \/ Has(rawTx.tx.source, RAYDIUM)
    \/ Has(rawTx.tx.source, ORCA)
StakeRule ==
    \/ Has(rawTx.tx.type, STAKE)
    \/ Has(rawTx.tx.source, MARINADE)
    \/ Has(rawTx.tx.source, JITO)
TransferRule ==
    \/ Has(rawTx.tx.type, TRANSFER)
    \/ TokenTransferCount = 1
    \/ NativeTransferCount >= 1

\* C12: the type is decided by the first rule that matches, labels compared
\* without regard to case: swap keyword -> swap; stake keyword -> unstake
\* when the type label also has UNSTAKE or WITHDRAW, else stake; TRANSFER
\* label, exactly one token transfer or a native transfer -> transfer; else
\* unknown. A source with 'jupiter' and no type label is a swap even with a
\* stake keyword; two token transfers with no keyword and no native
\* transfer are unknown.
C12_Classification ==
    parsed # Null =>
        /\ parsed.type =
              IF SwapRule THEN "swap"
              ELSE IF StakeRule THEN
                  IF Has(rawTx.tx.type, UNSTAKE) \/ Has(rawTx.tx.type, WITHDRAW)
                  THEN "unstake" ELSE "stake"
              ELSE IF TransferRule THEN "transfer"
              ELSE "unknown"
        /\ (Has(rawTx.tx.source, JUPITER) /\ NoLabel(rawTx.tx.type))
              => parsed.type = "swap"
        /\ ( /\ TokenTransferCount = 2 /\ NativeTransferCount = 0
             /\ ~SwapRule /\ ~StakeRule /\ ~Has(rawTx.tx.type, TRANSFER) )
              => parsed.type = "unknown"

\* a lower-case source naming both jupiter and jito, without a type label
C12_Witness ==
    /\ parsed # Null
    /\ NoLabel(rawTx.tx.type)
    /\ rawTx.tx.source # Null
    /\ includes(rawTx.tx.source.chars, <<"j", "u", "p", "i", "t", "e", "r">>)
    /\ Has(rawTx.tx.source, JITO)
    /\ parsed.type = "swap"

\* the token transfers of the transaction handed in
RawItems ==
    IF rawTx.tx.tokenTransfers = Null THEN <<>>
    ELSE rawTx.tx.tokenTransfers.items

\* positions of the transfers the wallet receives, and of those it sends
\* without receiving them
IncomingAt ==
    {i \in DOMAIN RawItems : RawItems[i].toUserAccount = rawTx.trackedWallet}
OutgoingAt ==
    {i \in DOMAIN RawItems :
        /\ RawItems[i].fromUserAccount = rawTx.trackedWallet
        /\ RawItems[i].toUserAccount # rawTx.trackedWallet}

FirstOf(indexes) == CHOOSE i \in indexes : \A j \in indexes : i <= j

\* the leg made of the transfer at position i
LegAt(i) ==
    [ mint     |-> RawItems[i].mint,
      amount   |-> RawItems[i].tokenAmount,
      decimals |-> 0,
      uiAmount |-> RawItems[i].tokenAmount ]

\* C13: a swap with an incoming and an outgoing transfer gets tokenIn = the
\* first outgoing and tokenOut = the first incoming transfer in list order;
\* a transfer gets 'transfer' = the first incoming transfer if any, else
\* the first outgoing; in every other case none of tokenIn, tokenOut and
\* transfer is set; transfers involving neither side are dropped, decimals
\* is always 0 and success always true.
C13_Legs ==
    parsed # Null =>
        /\ parsed.success = TRUE
        /\ \A leg \in {parsed.tokenIn, parsed.tokenOut, parsed.transfer} :
              leg # Null => leg.decimals = 0
        /\ IF parsed.type = "swap" /\ IncomingAt # {} /\ OutgoingAt # {}
           THEN /\ parsed.tokenIn = LegAt(FirstOf(OutgoingAt))
                /\ parsed.tokenOut = LegAt(FirstOf(IncomingAt))
                /\ parsed.transfer = Null
           ELSE IF parsed.type = "transfer" /\ IncomingAt \cup OutgoingAt # {}
           THEN /\ parsed.transfer =
                      IF IncomingAt # {} THEN LegAt(FirstOf(IncomingAt))
                      ELSE LegAt(FirstOf(OutgoingAt))
                /\ parsed.tokenIn = Null
                /\ parsed.tokenOut = Null
           ELSE /\ parsed.tokenIn = Null
                /\ parsed.tokenOut = Null
                /\ parsed.transfer = Null

\* a swap whose first transfer goes from the wallet to itself and whose
\* second leaves the wallet: the first is the incoming, the second the
\* outgoing leg
C13_Witness ==
    /\ parsed # Null
    /\ parsed.type = "swap"
    /\ Len(RawItems) = 2
    /\ RawItems[1].fromUserAccount = rawTx.trackedWallet
    /\ RawItems[1].toUserAccount = rawTx.trackedWallet
    /\ OutgoingAt = {2}
    /\ parsed.tokenOut = LegAt(1)
    /\ parsed.tokenIn = LegAt(2)

-----------------------------------------------------------------------------
(* createMovement: direction and amount *)

\* transactions of every type, just made: swaps receiving, giving, doing
\* both with and not touching T1, transfers of T1, of T2 and without a leg,
\* stakes and unstakes with and without tokenIn, and an unclassified one
CreateTxs(t) ==
    LET ts == t \div 1000 IN
    { Buy(Sig1, ts, "T1", 2000),
      Sell(Sig1, ts, "T1", 1000),
      ParsedTx(Sig1, ts, "swap", Leg("T1", 700), Leg("T1", 900), Null),
      Buy(Sig1, ts, "T2", 1000),
      ParsedTx(Sig1, ts, "swap", Null, Null, Null),
      Transfer(Sig1, ts, "T1", 1500),
      Transfer(Sig1, ts, "T2", 1500),
      ParsedTx(Sig1, ts, "transfer", Null, Null, Null),
      ParsedTx(Sig1, ts, "stake", Leg("T2", 800), Null, Null),
      ParsedTx(Sig1, ts, "stake", Null, Null, Null),
      ParsedTx(Sig1, ts, "unstake", Leg(USDC, 600), Null, Null),
      ParsedTx(Sig1, ts, "unstake", Null, Null, Null),
      ParsedTx(Sig1, ts, "unknown", Leg(USDC, 9000), Leg("T1", 900), Null),
      ParsedTx(Sig1, ts, "burn", Null, Null, Leg("T1", 900)) }

\* a config that tracks every movement
ZeroConfig == [DEFAULT_WHALE_CONFIG EXCEPT !.minMovementUsd = 0]

CreateConfigs == {DEFAULT_WHALE_CONFIG, ZeroConfig}

NextCreate ==
    \/ \E tx \in CreateTxs(now), config \in CreateConfigs :
          ProcessTransactions(<<tx>>, Whale1, "T1", 10, config)
    \/ ClearMovements

SpecCreate == Init /\ [][NextCreate]_vars

\* the one transaction of the last call, and the movement made of it
TheTx == lastCall.txs[1]
Made == IF lastCall.returned = <<>> THEN Null ELSE lastCall.returned[1]

\* the call made a movement of that direction and amount when the amount
\* is worth the threshold, and none when it is not
Gives(direction, amount) ==
    IF amount * lastCall.tokenPrice >= lastCall.config.minMovementUsd
    THEN Made # Null /\ Made.direction = direction /\ Made.amount = amount
    ELSE Made = Null

HasMint(leg) == leg # Null /\ leg.mint = lastCall.tokenMint

\* C14: for a swap, tokenOut.mint = tokenMint gives 'in' with the tokenOut
\* amount (also when both legs match), else tokenIn.mint = tokenMint gives
\* 'out' with the tokenIn amount, else null; a transfer of tokenMint is
\* always 'out'; a stake is 'out' and an unstake 'in', with the tokenIn
\* amount or 0 whatever the mint; any other type and a transfer of another
\* mint give null. (A movement is made only when its value reaches
\* config.minMovementUsd.)
C14_Direction ==
    (lastCall # Null /\ Len(lastCall.txs) = 1) =>
        /\ (TheTx.type = "swap" /\ HasMint(TheTx.tokenOut))
              => Gives("in", TheTx.tokenOut.uiAmount)
        /\ (TheTx.type = "swap" /\ ~HasMint(TheTx.tokenOut)
                /\ HasMint(TheTx.tokenIn))
              => Gives("out", TheTx.tokenIn.uiAmount)
        /\ (TheTx.type = "swap" /\ ~HasMint(TheTx.tokenOut)
                /\ ~HasMint(TheTx.tokenIn))
              => Made = Null
        /\ (TheTx.type = "transfer" /\ HasMint(TheTx.transfer))
              => Gives("out", TheTx.transfer.uiAmount)
        /\ (TheTx.type = "transfer" /\ ~HasMint(TheTx.transfer))
              => Made = Null
        /\ TheTx.type = "stake"
              => Gives("out", IF TheTx.tokenIn # Null
                              THEN TheTx.tokenIn.uiAmount ELSE 0)
        /\ TheTx.type = "unstake"
              => Gives("in", IF TheTx.tokenIn # Null
                             THEN TheTx.tokenIn.uiAmount ELSE 0)
        /\ TheTx.type \notin {"swap", "transfer", "stake", "unstake"}
              => Made = Null

\* a swap whose two legs are both of the tracked mint, recorded as an
\* inflow of the received amount
C14_Witness ==
    /\ lastCall # Null
    /\ Len(lastCall.txs) = 1
    /\ TheTx.type = "swap"
    /\ HasMint(TheTx.tokenOut)
    /\ HasMint(TheTx.tokenIn)
    /\ TheTx.tokenIn.uiAmount # TheTx.tokenOut.uiAmount
    /\ Made # Null
    /\ Made.direction = "in"
    /\ Made.amount = TheTx.tokenOut.uiAmount

-----------------------------------------------------------------------------
(* Whale behavior: the buy ratio *)

Repeat(x, n) == [i \in 1..n |-> x]

\* how many of each kind of transaction a history holds: purchases, sales,
\* swaps of the tracked token for itself, transfers of it, purchases of
\* another token, and purchases made two days ago
HistoryShapes ==
    {c \in [1..6 -> 0..MaxHistory] :
        c[1] + c[2] + c[3] + c[4] + c[5] + c[6] <= MaxHistory}

HistoryOf(c, t) ==
    LET ts == t \div 1000 IN
    Repeat(Buy(Sig1, ts, TrackedMint, 100), c[1])
    \o Repeat(Sell(Sig2, ts, TrackedMint, 100), c[2])
    \o Repeat(ParsedTx(Sig1, ts, "swap", Leg(TrackedMint, 100),
                       Leg(TrackedMint, 90), Null), c[3])
    \o Repeat(Transfer(Sig2, ts, TrackedMint, 100), c[4])
    \o Repeat(Buy(Sig1, ts, "T2", 100), c[5])
    \o Repeat(Buy(Sig2, ts - 2 * 24 * 60 * 60, TrackedMint, 100), c[6])

BehaviorConfigs ==
    {DEFAULT_WHALE_CONFIG, [DEFAULT_WHALE_CONFIG EXCEPT !.minPatternTxCount = 0]}

InitBehavior ==
    /\ now = StartNow
    /\ recentMovements = <<>>
    /\ movementsByToken = <<>>
    /\ insertLog = <<>>
    /\ lastOp = "init"
    /\ lastCall = Null
    /\ detectArgs \in
          [ transactions : {HistoryOf(c, StartNow) : c \in HistoryShapes},
            tokenPrice   : {10},
            config       : BehaviorConfigs ]
    /\ detected = Null
    /\ ParseIdle
    /\ WhaleIdle
    /\ HttpIdle

AnalyzeWhaleBehavior ==
    /\ detected' =
          [ fn       |-> "analyzeWhaleBehavior",
            behavior |-> analyzeWhaleBehavior(Whale1, TrackedMint,
                            detectArgs.transactions, detectArgs.config, now) ]
    /\ lastOp' = "analyzeWhaleBehavior"
    /\ UNCHANGED <<now, storeVars, detectArgs, parseVars, whaleVars, httpVars>>

NextBehavior == AnalyzeWhaleBehavior

SpecBehavior == InitBehavior /\ [][NextBehavior]_vars

\* positions of the transactions inside the trailing window
RecentAt ==
    {i \in DOMAIN detectArgs.transactions :
        detectArgs.transactions[i].timestamp * 1000
            >= now - detectArgs.config.patternWindowMs}

HistoryMint(i, leg) ==
    detectArgs.transactions[i][leg] # Null
        /\ detectArgs.transactions[i][leg].mint = TrackedMint

\* buys: swaps receiving the tracked mint and transfers of it; sells: swaps
\* giving it
BuyCount ==
    Cardinality({i \in RecentAt : /\ detectArgs.transactions[i].type = "swap"
                                  /\ HistoryMint(i, "tokenOut")})
    + Cardinality({i \in RecentAt :
                      /\ detectArgs.transactions[i].type = "transfer"
                      /\ HistoryMint(i, "transfer")})
SellCount ==
    Cardinality({i \in RecentAt : /\ detectArgs.transactions[i].type = "swap"
                                  /\ HistoryMint(i, "tokenIn")})

\* C15: 'holding' when fewer than minPatternTxCount transactions lie inside
\* the window or buys + sells is below minPatternTxCount; otherwise
\* 'accumulating' iff buys / (buys + sells) >= 0.7, 'distributing' iff that
\* ratio <= 0.3, 'holding' otherwise; never 'unknown'.
C15_Behavior ==
    detected # Null =>
        LET total == BuyCount + SellCount
            min == detectArgs.config.minPatternTxCount
            b == detected.behavior
        IN  /\ b \in {"holding", "accumulating", "distributing"}
            /\ (Cardinality(RecentAt) < min \/ total < min) => b = "holding"
            /\ (Cardinality(RecentAt) >= min /\ total >= min) =>
                  /\ b = "accumulating"
                        <=> (total > 0 /\ 10 * BuyCount >= 7 * total)
                  /\ b = "distributing"
                        <=> (total > 0 /\ 10 * BuyCount <= 3 * total)

\* seven buys and three sells made by seven transactions, three of them
\* swaps counted on both sides: a ratio of exactly 0.7
C15_Witness ==
    /\ detected # Null
    /\ Len(detectArgs.transactions) = 7
    /\ BuyCount = 7
    /\ SellCount = 3
    /\ detected.behavior = "accumulating"

-----------------------------------------------------------------------------
(* Whale registry: actions *)

Whale2 == "whale2DDDDDD"

\* what an operation may change, as it is before the operation's step
Snapshot ==
    [ registry |-> whaleRegistry, history |-> transactionHistory,
      recent |-> recentMovements, byToken |-> movementsByToken ]

\* the event is added to the log where one is kept
Logged(event) ==
    eventLog' = IF eventLog.kept
                THEN [eventLog EXCEPT !.events = Append(@, event)]
                ELSE eventLog

\* discoverWhales up to its await: the request is with the provider
DiscoverWhalesCall(tokenMint, tokenPrice, config) ==
    LET call == [ fn |-> "discoverWhales", tokenMint |-> tokenMint,
                  tokenPrice |-> tokenPrice, config |-> config ]
    IN  /\ call \notin pending
        /\ pending' = pending \cup {call}
        /\ lastOp' = "await"
        /\ Logged([ev |-> "call", call |-> call])
        /\ UNCHANGED <<now, storeVars, detectVars, parseVars,
                       whaleRegistry, transactionHistory, lastResult,
                       httpVars>>

\* discoverWhales suspended again after its first holder, its caller seeing
\* the call resolve
DiscoverWhalesResolve_Yields(call, value) ==
    /\ call \in pending
    /\ call.fn = "discoverWhales"
    /\ LET r == discoverWhales(whaleRegistry, Slice(value, 1), call.tokenMint,
                               call.tokenPrice, call.config, now)
       IN  /\ whaleRegistry' = r.registry
           /\ lastResult' = [ fn |-> "discoverWhales", call |-> call,
                              outcome |-> "resolved", fetched |-> value,
                              returned |-> r.whales, before |-> Snapshot ]
    /\ pending' = pending \ {call}
    /\ lastOp' = "discoverWhales"
    /\ Logged([ev |-> "resolve", call |-> call, value |-> value, t |-> now])
    /\ UNCHANGED <<now, storeVars, detectVars, parseVars, transactionHistory,
                httpVars>>

\* the provider answers with the holder list `value`: the rest of
\* discoverWhales runs and the call resolves
DiscoverWhalesResolve(call, value) ==
    /\ call \in pending
    /\ call.fn = "discoverWhales"
    /\ LET r == discoverWhales(whaleRegistry, value, call.tokenMint,
                               call.tokenPrice, call.config, now)
       IN  /\ whaleRegistry' = r.registry
           /\ lastResult' = [ fn |-> "discoverWhales", call |-> call,
                              outcome |-> "resolved", fetched |-> value,
                              returned |-> r.whales, before |-> Snapshot ]
    /\ pending' = pending \ {call}
    /\ lastOp' = "discoverWhales"
    /\ Logged([ev |-> "resolve", call |-> call, value |-> value, t |-> now])
    /\ UNCHANGED <<now, storeVars, detectVars, parseVars, transactionHistory,
                httpVars>>

\* the provider call fails (no API key, network error, error status, RPC
\* error): the await throws and the call rejects
DiscoverWhalesReject(call) ==
    /\ call \in pending
    /\ call.fn = "discoverWhales"
    /\ lastResult' = [ fn |-> "discoverWhales", call |-> call,
                       outcome |-> "rejected", before |-> Snapshot ]
    /\ pending' = pending \ {call}
    /\ lastOp' = "discoverWhales"
    /\ Logged([ev |-> "reject", call |-> call])
    /\ UNCHANGED <<now, storeVars, detectVars, parseVars,
                   whaleRegistry, transactionHistory, httpVars>>

\* analyzeWhale up to its await
AnalyzeWhaleCall(walletAddress, tokenMint, tokenPrice, config) ==
    LET call == [ fn |-> "analyzeWhale", walletAddress |-> walletAddress,
                  tokenMint |-> tokenMint, tokenPrice |-> tokenPrice,
                  config |-> config ]
    IN  /\ call \notin pending
        /\ pending' = pending \cup {call}
        /\ lastOp' = "await"
        /\ Logged([ev |-> "call", call |-> call])
        /\ UNCHANGED <<now, storeVars, detectVars, parseVars,
                       whaleRegistry, transactionHistory, lastResult,
                       httpVars>>

\* analyzeWhale giving up, once the provider has answered, when the
\* registry does not know the wallet
AnalyzeWhaleResolve_NeedsProfile(call, rawTxs) ==
    /\ call \in pending
    /\ call.fn = "analyzeWhale"
    /\ LET r == analyzeWhale(whaleRegistry, transactionHistory, rawTxs,
                             call.walletAddress, call.tokenMint,
                             call.tokenPrice, call.config, now)
           known == getWhaleProfile(whaleRegistry, call.tokenMint,
                                    call.walletAddress) # Null
       IN  /\ whaleRegistry' = r.registry
           /\ transactionHistory' =
                 IF known THEN r.history ELSE transactionHistory
           /\ lastResult' = [ fn |-> "analyzeWhale", call |-> call,
                              outcome |-> "resolved", fetched |-> rawTxs,
                              returned |-> r.returned, before |-> Snapshot ]
    /\ pending' = pending \ {call}
    /\ lastOp' = "analyzeWhale"
    /\ Logged([ev |-> "resolve", call |-> call, value |-> rawTxs, t |-> now])
    /\ UNCHANGED <<now, storeVars, detectVars, parseVars, httpVars>>

\* the provider answers with the transactions `rawTxs`
AnalyzeWhaleResolve(call, rawTxs) ==
    /\ call \in pending
    /\ call.fn = "analyzeWhale"
    /\ LET r == analyzeWhale(whaleRegistry, transactionHistory, rawTxs,
                             call.walletAddress, call.tokenMint,
                             call.tokenPrice, call.config, now)
       IN  /\ whaleRegistry' = r.registry
           /\ transactionHistory' = r.history
           /\ lastResult' = [ fn |-> "analyzeWhale", call |-> call,
                              outcome |-> "resolved", fetched |-> rawTxs,
                              returned |-> r.returned, before |-> Snapshot ]
    /\ pending' = pending \ {call}
    /\ lastOp' = "analyzeWhale"
    /\ Logged([ev |-> "resolve", call |-> call, value |-> rawTxs, t |-> now])
    /\ UNCHANGED <<now, storeVars, detectVars, parseVars, httpVars>>

\* a failing analyzeWhale that caches an empty history for the wallet
AnalyzeWhaleReject_Caches(call) ==
    /\ call \in pending
    /\ call.fn = "analyzeWhale"
    /\ lastResult' = [ fn |-> "analyzeWhale", call |-> call,
                       outcome |-> "rejected", before |-> Snapshot ]
    /\ transactionHistory' =
          [w \in DOMAIN transactionHistory \cup {call.walletAddress} |->
              IF w = call.walletAddress THEN <<>> ELSE transactionHistory[w]]
    /\ pending' = pending \ {call}
    /\ lastOp' = "analyzeWhale"
    /\ Logged([ev |-> "reject", call |-> call])
    /\ UNCHANGED <<now, storeVars, detectVars, parseVars, whaleRegistry, httpVars>>

\* the provider call of analyzeWhale fails: the call rejects
AnalyzeWhaleReject(call) ==
    /\ call \in pending
    /\ call.fn = "analyzeWhale"
    /\ lastResult' = [ fn |-> "analyzeWhale", call |-> call,
                       outcome |-> "rejected", before |-> Snapshot ]
    /\ pending' = pending \ {call}
    /\ lastOp' = "analyzeWhale"
    /\ Logged([ev |-> "reject", call |-> call])
    /\ UNCHANGED <<now, storeVars, detectVars, parseVars,
                   whaleRegistry, transactionHistory, httpVars>>

UpdateWhaleProfile(tokenMint, walletAddress, update) ==
    /\ whaleRegistry' = updateWhaleProfile(whaleRegistry, tokenMint,
                                           walletAddress, update, now)
    /\ lastResult' = [ fn |-> "updateWhaleProfile", tokenMint |-> tokenMint,
                       walletAddress |-> walletAddress, update |-> update,
                       outcome |-> "returned", before |-> Snapshot ]
    /\ lastOp' = "updateWhaleProfile"
    /\ Logged([ ev |-> "update", tokenMint |-> tokenMint,
                 walletAddress |-> walletAddress, update |-> update,
                 t |-> now ])
    /\ UNCHANGED <<now, storeVars, detectVars, parseVars,
                   transactionHistory, pending, httpVars>>

ClearWhaleRegistry ==
    /\ whaleRegistry' = <<>>
    /\ transactionHistory' = <<>>
    /\ lastResult' = Null
    /\ lastOp' = "clearWhaleRegistry"
    /\ eventLog' = [eventLog EXCEPT !.events = <<>>]
    /\ UNCHANGED <<now, storeVars, detectVars, parseVars, pending, httpVars>>

\* a token account as the provider reports it
Holder(address, uiAmount) ==
    [address |-> address, amount |-> uiAmount, decimals |-> 0,
     uiAmount |-> uiAmount]

\* holders worth exactly $100,000, $200,000 and $99,990 at $10
ProviderHolders ==
    {Holder(Whale1, 10000), Holder(Whale2, 20000), Holder(Other, 9999)}

\* the provider answers with up to MaxHolders different token accounts, in
\* any order
HolderAnswers ==
    {l \in UNION {[1..n -> ProviderHolders] : n \in 0..MaxHolders} :
        \A i, j \in DOMAIN l : i # j => l[i] # l[j]}

\* a purchase of the token as the provider reports it
RawBuy(signature, timestamp, wallet, mint, amount) ==
    [ signature       |-> signature,
      timestamp       |-> timestamp,
      type            |-> Str(SWAP),
      source          |-> Null,
      fee             |-> 5000,
      tokenTransfers  |-> Arr(<< TokenTransfer(wallet, Other, USDC, amount * 10),
                                 TokenTransfer(Other, wallet, mint, amount) >>),
      nativeTransfers |-> Null ]

\* the provider knows no transaction of the wallet, or three purchases
TxAnswers(t) ==
    { <<>>, Repeat(RawBuy(Sig1, t \div 1000, Whale1, "T1", 10000), 3) }

ProfileUpdates ==
    { [behavior |-> "holding", lastActivity |-> 0, label |-> "fund"] }

\* the one movement the store of the registry specification may hold
WhaleMovement ==
    createMovement(Buy(Sig1, StartNow \div 1000, "T1", 2000), Whale1, "T1", 10,
                   DEFAULT_WHALE_CONFIG, StartNow)

\* one call is in flight at a time
NextWhales ==
    \/ pending = {} /\ DiscoverWhalesCall("T1", 10, DEFAULT_WHALE_CONFIG)
    \/ \E call \in pending, value \in HolderAnswers :
          DiscoverWhalesResolve(call, value)
    \/ \E call \in pending : DiscoverWhalesReject(call)
    \/ pending = {} /\ AnalyzeWhaleCall(Whale1, "T1", 10, DEFAULT_WHALE_CONFIG)
    \/ \E call \in pending, rawTxs \in TxAnswers(now) :
          AnalyzeWhaleResolve(call, rawTxs)
    \/ \E call \in pending : AnalyzeWhaleReject(call)
    \/ \E tokenMint \in Tokens, walletAddress \in {Whale1, Other},
          update \in ProfileUpdates :
          UpdateWhaleProfile(tokenMint, walletAddress, update)
    \/ ClearWhaleRegistry
    \/ insertLog = <<>> /\ RecordMovement(WhaleMovement)
    \/ Tick

SpecWhales == Init /\ [][NextWhales]_vars

-----------------------------------------------------------------------------
(* Whale registry: updates *)

SameRegistry(r1, r2) ==
    /\ DOMAIN r1 = DOMAIN r2
    /\ \A k \in DOMAIN r1 : r1[k] = r2[k]

UpdateJustReturned ==
    lastOp = "updateWhaleProfile" /\ lastResult # Null
        /\ lastResult.fn = "updateWhaleProfile"

\* the entry the update names was in the registry when it was called
WasRegistered ==
    /\ lastResult.tokenMint \in DOMAIN lastResult.before.registry
    /\ MapHas(lastResult.before.registry[lastResult.tokenMint],
              lastResult.walletAddress)

\* C16: updateWhaleProfile leaves the whole registry unchanged when the
\* token or the address is not registered; when the entry exists it changes
\* only that profile, assigning the supplied fields and setting lastActivity
\* to the current time.
C16_Update ==
    UpdateJustReturned =>
        LET before == lastResult.before.registry
            update == lastResult.update
        IN  /\ ~WasRegistered => SameRegistry(whaleRegistry, before)
            /\ WasRegistered =>
                  /\ DOMAIN whaleRegistry = DOMAIN before
                  /\ \A k \in DOMAIN before :
                        /\ Len(whaleRegistry[k]) = Len(before[k])
                        /\ \A i \in DOMAIN before[k] :
                              LET old == before[k][i]
                                  new == whaleRegistry[k][i]
                              IN  IF k = lastResult.tokenMint
                                     /\ old.key = lastResult.walletAddress
                                  THEN /\ new.key = old.key
                                       /\ new.value.lastActivity = now
                                       /\ \A f \in DOMAIN update \ {"lastActivity"} :
                                             new.value[f] = update[f]
                                       /\ \A f \in DOMAIN old.value
                                                \ (DOMAIN update \cup {"lastActivity"}) :
                                             new.value[f] = old.value[f]
                                  ELSE new = old

\* a whale discovered a day ago, registered together with another one, was
\* updated: its lastActivity is the current time, its firstSeen is not
C16_Witness ==
    /\ UpdateJustReturned
    /\ WasRegistered
    /\ Len(whaleRegistry[lastResult.tokenMint]) = 2
    /\ LET p == getWhaleProfile(whaleRegistry, lastResult.tokenMint,
                                lastResult.walletAddress)
       IN  /\ p.behavior = "holding"
           /\ p.lastActivity = now
           /\ p.firstSeen < now

-----------------------------------------------------------------------------
(* Whale registry: discovery *)

DiscoverJustResolved ==
    lastOp = "discoverWhales" /\ lastResult # Null
        /\ lastResult.fn = "discoverWhales" /\ lastResult.outcome = "resolved"

\* positions of the holders discoverWhales fetched: the first DiscoverLimit
\* of the provider's answer
FetchedAt == 1..Min(Len(lastResult.fetched), DiscoverLimit)

WorthAt(i) == lastResult.fetched[i].uiAmount * lastResult.call.tokenPrice

\* positions of the fetched holders that reach the threshold
WhalesAt ==
    {i \in FetchedAt : WorthAt(i) >= lastResult.call.config.minWhaleHoldingsUsd}

\* the j-th smallest element of a set of numbers
NthOf(indexes, j) ==
    CHOOSE i \in indexes : Cardinality({k \in indexes : k < i}) = j - 1

\* C17: when discoverWhales resolves, its result is exactly the fetched
\* holders (at most the limit asked for) worth at least
\* config.minWhaleHoldingsUsd, equality included, in the provider's order;
\* each is stored in the registry under (tokenMint, address) with behavior
\* 'unknown' and recentTxCount 0, and no holder below the threshold has been
\* added to the registry.
C17_Discover ==
    DiscoverJustResolved =>
        LET mint == lastResult.call.tokenMint
            returned == lastResult.returned
        IN  /\ Len(returned) = Cardinality(WhalesAt)
            /\ \A j \in DOMAIN returned :
                  LET h == lastResult.fetched[NthOf(WhalesAt, j)] IN
                  /\ returned[j].address = h.address
                  /\ returned[j].holdings = h.uiAmount
                  /\ returned[j].usdValue = WorthAt(NthOf(WhalesAt, j))
                  /\ returned[j].tokenMint = mint
                  /\ returned[j].behavior = "unknown"
                  /\ returned[j].recentTxCount = 0
                  /\ getWhaleProfile(whaleRegistry, mint, h.address) = returned[j]
            /\ \A i \in DOMAIN lastResult.fetched \ WhalesAt :
                  getWhaleProfile(whaleRegistry, mint,
                                  lastResult.fetched[i].address)
                    = getWhaleProfile(lastResult.before.registry, mint,
                                      lastResult.fetched[i].address)

\* the provider answered with three holders, the first worth exactly the
\* threshold, the second more and the third less: the first two are
\* returned in that order and the third is not in the registry
C17_Witness ==
    /\ DiscoverJustResolved
    /\ Len(lastResult.fetched) = 3
    /\ WhalesAt = {1, 2}
    /\ WorthAt(1) = lastResult.call.config.minWhaleHoldingsUsd
    /\ WorthAt(2) > WorthAt(1)
    /\ Len(lastResult.returned) = 2
    /\ lastResult.returned[1].address = lastResult.fetched[1].address
    /\ getWhaleProfile(whaleRegistry, lastResult.call.tokenMint,
                       lastResult.fetched[3].address) = Null

-----------------------------------------------------------------------------
(* Whale registry: provider failures *)

RejectJustHappened ==
    lastOp \in {"discoverWhales", "analyzeWhale"} /\ lastResult # Null
        /\ lastResult.outcome = "rejected"

\* C18: when the provider call fails, analyzeWhale and discoverWhales
\* reject without sending the request again, and the whale registry, the
\* transaction-history cache and the movement store are as they were.
C18_RejectLeavesState ==
    RejectJustHappened =>
        /\ lastResult.call \notin pending
        /\ SameRegistry(whaleRegistry, lastResult.before.registry)
        /\ SameRegistry(transactionHistory, lastResult.before.history)
        /\ recentMovements = lastResult.before.recent
        /\ SameRegistry(movementsByToken, lastResult.before.byToken)

\* analyzeWhale rejected while the registry, the history cache and the
\* movement store all held something
C18_Witness ==
    /\ RejectJustHappened
    /\ lastResult.fn = "analyzeWhale"
    /\ getTrackedWhales(whaleRegistry, "T1") # <<>>
    /\ Whale1 \in DOMAIN transactionHistory
    /\ transactionHistory[Whale1] # <<>>
    /\ recentMovements # <<>>

-----------------------------------------------------------------------------
(* Queries as operations *)

\* a query returns `value` to its caller
Returns(fn, args, value) ==
    /\ lastResult' = [ fn |-> fn, args |-> args, outcome |-> "returned",
                       returned |-> value, before |-> Snapshot ]
    /\ lastOp' = fn

\* what no query writes to
QueryFrame ==
    UNCHANGED <<now, storeVars, detectVars, parseVars, whaleRegistry,
                transactionHistory, pending, eventLog, httpVars>>

GetMovementsByToken(tokenMint, limit) ==
    /\ Returns("getMovementsByToken", <<tokenMint, limit>>,
               getMovementsByToken(tokenMint, limit))
    /\ QueryFrame

GetMovementsByWhale(whaleAddress, limit) ==
    /\ Returns("getMovementsByWhale", <<whaleAddress, limit>>,
               getMovementsByWhale(whaleAddress, limit))
    /\ QueryFrame

GetAllRecentMovements(limit) ==
    /\ Returns("getAllRecentMovements", <<limit>>, getAllRecentMovements(limit))
    /\ QueryFrame

GetMovementsByType(type, limit) ==
    /\ Returns("getMovementsByType", <<type, limit>>,
               getMovementsByType(type, limit))
    /\ QueryFrame

GetLargeMovements(minUsd, limit) ==
    /\ Returns("getLargeMovements", <<minUsd, limit>>,
               getLargeMovements(minUsd, limit))
    /\ QueryFrame

GetMovementStats(tokenMint, windowMs) ==
    /\ Returns("getMovementStats", <<tokenMint, windowMs>>,
               getMovementStats(tokenMint, windowMs))
    /\ QueryFrame

GetNetFlow(tokenMint, windowMs) ==
    /\ Returns("getNetFlow", <<tokenMint, windowMs>>,
               getNetFlow(tokenMint, windowMs))
    /\ QueryFrame

\* getTrackedWhales registering an empty map for a token it does not know
GetTrackedWhales_Registers(tokenMint) ==
    /\ Returns("getTrackedWhales", <<tokenMint>>,
               getTrackedWhales(whaleRegistry, tokenMint))
    /\ whaleRegistry' =
          [k \in DOMAIN whaleRegistry \cup {tokenMint} |->
              IF k \in DOMAIN whaleRegistry THEN whaleRegistry[k] ELSE <<>>]
    /\ UNCHANGED <<now, storeVars, detectVars, parseVars,
                   transactionHistory, pending, eventLog,
                   httpVars>>

GetTrackedWhales(tokenMint) ==
    /\ Returns("getTrackedWhales", <<tokenMint>>,
               getTrackedWhales(whaleRegistry, tokenMint))
    /\ QueryFrame

GetWhaleProfile(tokenMint, walletAddress) ==
    /\ Returns("getWhaleProfile", <<tokenMint, walletAddress>>,
               getWhaleProfile(whaleRegistry, tokenMint, walletAddress))
    /\ QueryFrame

GetWhaleActivitySummary(tokenMint) ==
    /\ Returns("getWhaleActivitySummary", <<tokenMint>>,
               getWhaleActivitySummary(whaleRegistry, tokenMint))
    /\ QueryFrame

\* movements and provider answers of the query specification
QueryMovements ==
    MovementsOf({Buy(Sig1, StartNow \div 1000, "T1", 2000),
                 Transfer(Sig2, StartNow \div 1000, "T2", 1000)},
                DEFAULT_WHALE_CONFIG, StartNow)

QueryAnswers ==
    { <<Holder(Whale1, 10000)>>,
      <<Holder(Whale2, 20000), Holder(Whale1, 10000)>> }

NextQueries ==
    \/ \E m \in QueryMovements : Len(insertLog) < MaxBatch /\ RecordMovement(m)
    \/ ClearMovements
    \/ pending = {} /\ DiscoverWhalesCall("T1", 10, DEFAULT_WHALE_CONFIG)
    \/ \E call \in pending, value \in QueryAnswers :
          DiscoverWhalesResolve(call, value)
    \/ \E update \in ProfileUpdates : UpdateWhaleProfile("T1", Whale1, update)
    \/ ClearWhaleRegistry
    \/ \E k \in Tokens : GetMovementsByToken(k, 50)
    \/ GetMovementsByWhale(Whale1, 50)
    \/ GetAllRecentMovements(100)
    \/ GetMovementsByType("swap", 50)
    \/ GetLargeMovements(20000, 50)
    \/ GetMovementStats("T1", DEFAULT_WINDOW_MS)
    \/ GetNetFlow("T1", DEFAULT_WINDOW_MS)
    \/ \E k \in Tokens : GetTrackedWhales(k)
    \/ GetWhaleProfile("T1", Whale1)
    \/ GetWhaleActivitySummary("T1")

SpecQueries == Init /\ [][NextQueries]_vars

QueryNames ==
    { "getMovementsByToken", "getMovementsByWhale", "getAllRecentMovements",
      "getMovementsByType", "getLargeMovements", "getMovementStats",
      "getNetFlow", "getTrackedWhales", "getWhaleProfile",
      "getWhaleActivitySummary" }

QueryJustReturned == lastOp \in QueryNames /\ lastResult # Null

\* C19: every query leaves the movement store and the whale registry as
\* they were, so getTrackedWhales called again right after it returned
\* gives the same result.
C19_QueriesReadOnly ==
    QueryJustReturned =>
        /\ recentMovements = lastResult.before.recent
        /\ SameRegistry(movementsByToken, lastResult.before.byToken)
        /\ SameRegistry(whaleRegistry, lastResult.before.registry)
        /\ lastResult.fn = "getTrackedWhales" =>
              getTrackedWhales(whaleRegistry, lastResult.args[1])
                  = lastResult.returned

\* getTrackedWhales returned two whales while movements were stored, and
\* asked about a token the registry does not know
C19_Witness ==
    /\ QueryJustReturned
    /\ lastResult.fn = "getTrackedWhales"
    /\ lastResult.args[1] \notin DOMAIN whaleRegistry
    /\ Len(getTrackedWhales(whaleRegistry, "T1")) = 2
    /\ Len(recentMovements) > 1

-----------------------------------------------------------------------------
(* processTransactions: order *)

\* purchases made now and two days ago, a sale below the threshold made
\* yesterday, and a purchase older than the maximum age
OrderTxs(t) ==
    LET ts == t \div 1000 IN
    { Buy(Sig1, ts, "T1", 2000),
      Buy(Sig2, ts - 2 * 24 * 60 * 60, "T1", 1500),
      Sell(Sig1, ts - 24 * 60 * 60, "T1", 500),
      Buy(Sig2, ts - 8 * 24 * 60 * 60, "T1", 3000) }

NextOrder ==
    \/ \E txs \in Batches(OrderTxs(now)) :
          ProcessTransactions(txs, Whale1, "T1", 10, DEFAULT_WHALE_CONFIG)
    \/ ClearMovements

SpecOrder == Init /\ [][NextOrder]_vars

\* positions of the transactions of the last call that qualify
QualifyingAt ==
    {i \in DOMAIN lastCall.txs :
        /\ Involves(lastCall.txs[i], lastCall.tokenMint)
        /\ TrackedAmount(lastCall.txs[i], lastCall.tokenMint)
              * lastCall.tokenPrice >= lastCall.config.minMovementUsd}

\* nothing recorded since the last clear is older than the maximum age or
\* in excess of a cap
NoPruningTriggered ==
    /\ \A i \in DOMAIN insertLog : ~IsStale(insertLog[i])
    /\ \A k \in Tokens : Len(LogOf(k)) <= MAX_MOVEMENTS_PER_TOKEN
    /\ Len(insertLog) <= MAX_MOVEMENTS_PER_TOKEN * 10

\* C20: processTransactions returns the movements of the qualifying
\* transactions in input order and records them in that order: when no
\* pruning is triggered the lists hold them newest-processed first, so the
\* head of the global list and of the token's list is the movement of the
\* last qualifying transaction, whatever the timestamps.
C20_InputOrder ==
    lastCall # Null =>
        /\ Len(lastCall.returned) = Cardinality(QualifyingAt)
        /\ \A j \in DOMAIN lastCall.returned :
              MadeOf(lastCall.returned[j],
                     lastCall.txs[NthOf(QualifyingAt, j)], lastCall.tokenMint)
        /\ (NoPruningTriggered /\ QualifyingAt # {}) =>
              /\ SubSeq(recentMovements, 1, Len(lastCall.returned))
                    = Reverse(lastCall.returned)
              /\ IsHeadOf(Last(lastCall.returned), getAllRecentMovements(100))
              /\ IsHeadOf(Last(lastCall.returned),
                          getMovementsByToken(lastCall.tokenMint, 50))

\* two qualifying transactions, the first with the later timestamp: the
\* head of the lists is the movement of the second
C20_Witness ==
    /\ lastCall # Null
    /\ Len(lastCall.txs) = 2
    /\ Len(lastCall.returned) = 2
    /\ NoPruningTriggered
    /\ lastCall.txs[1].timestamp > lastCall.txs[2].timestamp
    /\ recentMovements[1].timestamp < recentMovements[2].timestamp
    /\ IsHeadOf(lastCall.returned[2], getMovementsByToken(lastCall.tokenMint, 50))

-----------------------------------------------------------------------------
(* Whale registry: concurrent calls *)

\* the registry specification with the log of events kept
InitConcurrent ==
    /\ now = StartNow
    /\ recentMovements = <<>>
    /\ movementsByToken = <<>>
    /\ insertLog = <<>>
    /\ lastOp = "init"
    /\ lastCall = Null
    /\ detectArgs = Null
    /\ detected = Null
    /\ ParseIdle
    /\ whaleRegistry = <<>>
    /\ transactionHistory = <<>>
    /\ pending = {}
    /\ lastResult = Null
    /\ eventLog = [kept |-> TRUE, events |-> <<>>]
    /\ HttpIdle

\* two whales at $10, or one whale and a holder below the threshold; at $5
\* only the second wallet is a whale
ConcurrentAnswers ==
    { <<Holder(Whale1, 10000), Holder(Whale2, 20000)>>,
      <<Holder(Whale2, 20000), Holder(Other, 9999)>> }

\* the log has room for a new call, its settlement and those of the calls
\* in flight
RoomForCall == Len(eventLog.events) + Cardinality(pending) + 2 <= MaxEvents

\* any number of calls in flight, settling in any order
NextConcurrent ==
    \/ \E tokenPrice \in {10, 5} :
          RoomForCall /\ DiscoverWhalesCall("T1", tokenPrice, DEFAULT_WHALE_CONFIG)
    \/ \E call \in pending, value \in ConcurrentAnswers :
          DiscoverWhalesResolve(call, value)
    \/ \E call \in pending : DiscoverWhalesReject(call)
    \/ RoomForCall /\ AnalyzeWhaleCall(Whale1, "T1", 10, DEFAULT_WHALE_CONFIG)
    \/ \E call \in pending, rawTxs \in TxAnswers(now) :
          AnalyzeWhaleResolve(call, rawTxs)
    \/ \E call \in pending : AnalyzeWhaleReject(call)
    \/ ClearWhaleRegistry
    \/ Tick

SpecConcurrent == InitConcurrent /\ [][NextConcurrent]_vars

\* the calls whose provider responses are in the list of events, run one
\* after the other in that order, each from its response to its end; acc is
\* [registry, history]
RECURSIVE Sequentially(_, _, _)
Sequentially(events, i, acc) ==
    IF i > Len(events) THEN acc
    ELSE LET e == events[i] IN
         Sequentially(events, i + 1,
            IF e.ev = "resolve" /\ e.call.fn = "discoverWhales"
            THEN [acc EXCEPT !.registry =
                    discoverWhales(acc.registry, e.value, e.call.tokenMint,
                        e.call.tokenPrice, e.call.config, e.t).registry]
            ELSE IF e.ev = "resolve" /\ e.call.fn = "analyzeWhale"
            THEN LET r == analyzeWhale(acc.registry, acc.history, e.value,
                              e.call.walletAddress, e.call.tokenMint,
                              e.call.tokenPrice, e.call.config, e.t)
                 IN  [registry |-> r.registry, history |-> r.history]
            ELSE acc)

NothingKnown == [registry |-> <<>>, history |-> <<>>]

\* C21: however concurrent discoverWhales and analyzeWhale calls interleave,
\* the registry and the history cache are in every state what running the
\* calls one after the other, in the order their provider responses
\* arrived, makes of them; so when a discoverWhales call has resolved every
\* qualifying holder it fetched is registered, never only some of them.
C21_Serializable ==
    LET r == Sequentially(eventLog.events, 1, NothingKnown)
    IN  /\ SameRegistry(whaleRegistry, r.registry)
        /\ SameRegistry(transactionHistory, r.history)
        /\ DiscoverJustResolved =>
              \A i \in WhalesAt :
                 LET p == getWhaleProfile(whaleRegistry,
                              lastResult.call.tokenMint,
                              lastResult.fetched[i].address)
                 IN  p # Null /\ p.firstSeen = now

\* two discoverWhales calls were in flight together and the one made last
\* was answered first; in the order of the calls the registry would differ
C21_Witness ==
    LET events == eventLog.events IN
    /\ Len(events) = 4
    /\ events[1].ev = "call" /\ events[2].ev = "call"
    /\ events[3].ev = "resolve" /\ events[3].call = events[2].call
    /\ events[4].ev = "resolve" /\ events[4].call = events[1].call
    /\ events[1].call.fn = "discoverWhales"
    /\ events[2].call.fn = "discoverWhales"
    /\ Len(getTrackedWhales(whaleRegistry, "T1")) = 2
    /\ ~SameRegistry(whaleRegistry,
            Sequentially(<<events[4], events[3]>>, 1, NothingKnown).registry)

-----------------------------------------------------------------------------
(* Movement store: the global cap *)

GlobalCap == MAX_MOVEMENTS_PER_TOKEN * 10

\* a fresh purchase of one token and a transfer of the other made eight
\* days ago
GlobalCapMovements ==
    MovementsOf({Buy(Sig1, StartNow \div 1000, "T1", 2000),
                 Transfer(Sig2, (StartNow \div 1000) - 8 * 24 * 60 * 60,
                          "T2", 1000)},
                DEFAULT_WHALE_CONFIG, StartNow)

\* recordMovement called up to one time more than the global cap, the old
\* transfer at most once
NextGlobalCap ==
    \/ \E m \in GlobalCapMovements :
          /\ m.tokenMint = "T2" => LogOf("T2") = <<>>
          /\ RecordMovementWithin(m, GlobalCap + 1)
    \/ ClearMovements

SpecGlobalCap == Init /\ [][NextGlobalCap]_vars

\* C22: the global list never holds more than 10 x MAX_MOVEMENTS_PER_TOKEN
\* movements; what it drops it drops from the tail, so it is always the
\* most recently recorded movements in order, all that fit when none is
\* older than the maximum age; and no token is mapped to an empty list.
C22_GlobalCap ==
    /\ Len(recentMovements) <= GlobalCap
    /\ Len(recentMovements) <= Len(insertLog)
    /\ recentMovements = SubSeq(insertLog, 1, Len(recentMovements))
    /\ (\A i \in DOMAIN insertLog : ~IsStale(insertLog[i]))
          => recentMovements = Slice(insertLog, GlobalCap)
    /\ \A k \in DOMAIN movementsByToken : Len(movementsByToken[k]) > 0

\* one movement more than the global cap was recorded and the list is full;
\* the only movement of the second token was pruned from its list, and the
\* token is gone from the mapping
C22_Witness ==
    /\ Len(insertLog) = GlobalCap + 1
    /\ Len(recentMovements) = GlobalCap
    /\ LogOf("T2") # <<>>
    /\ "T2" \notin DOMAIN movementsByToken
    /\ "T1" \in DOMAIN movementsByToken

-----------------------------------------------------------------------------
(* Whale registry: analysis *)

AnalyzeJustResolved ==
    lastOp = "analyzeWhale" /\ lastResult # Null
        /\ lastResult.fn = "analyzeWhale" /\ lastResult.outcome = "resolved"

\* (tokenMint, wallet) of the analysed call was registered when its
\* response arrived
AnalysedWasRegistered ==
    /\ lastResult.call.tokenMint \in DOMAIN lastResult.before.registry
    /\ MapHas(lastResult.before.registry[lastResult.call.tokenMint],
              lastResult.call.walletAddress)

\* C23: when analyzeWhale resolves, the history cache holds for the wallet
\* exactly the parsed transactions of this call, whatever it held before,
\* and the entries of other wallets are as they were; a registered profile
\* has the returned behavior and the number of fetched transactions as
\* recentTxCount; without a registered profile the registry is unchanged.
C23_Analyze ==
    AnalyzeJustResolved =>
        LET wallet == lastResult.call.walletAddress
            mint == lastResult.call.tokenMint
            fetched == lastResult.fetched
            before == lastResult.before
        IN  /\ wallet \in DOMAIN transactionHistory
            /\ Len(transactionHistory[wallet]) = Len(fetched)
            /\ \A i \in DOMAIN fetched :
                  /\ transactionHistory[wallet][i]
                        = parseTransactionData(fetched[i], wallet)
                  /\ transactionHistory[wallet][i].signature
                        = fetched[i].signature
            /\ DOMAIN transactionHistory = DOMAIN before.history \cup {wallet}
            /\ \A w \in DOMAIN before.history \ {wallet} :
                  transactionHistory[w] = before.history[w]
            /\ AnalysedWasRegistered =>
                  LET p == getWhaleProfile(whaleRegistry, mint, wallet)
                      old == getWhaleProfile(before.registry, mint, wallet)
                  IN  /\ p.behavior = lastResult.returned.behavior
                      /\ p.recentTxCount = Len(fetched)
                      /\ p.holdings = old.holdings
                      /\ p.firstSeen = old.firstSeen
            /\ ~AnalysedWasRegistered =>
                  SameRegistry(whaleRegistry, before.registry)

\* a registered whale with three cached transactions was analysed again
\* and the provider knew none: the cache entry is empty, the count is 0
C23_Witness ==
    /\ AnalyzeJustResolved
    /\ AnalysedWasRegistered
    /\ Whale1 \in DOMAIN lastResult.before.history
    /\ Len(lastResult.before.history[Whale1]) = 3
    /\ lastResult.fetched = <<>>
    /\ transactionHistory[Whale1] = <<>>
    /\ getWhaleProfile(lastResult.before.registry, "T1", Whale1).recentTxCount = 3
    /\ getWhaleProfile(whaleRegistry, "T1", Whale1).recentTxCount = 0

-----------------------------------------------------------------------------
(* Pattern detection: the volume gate and the window *)

VolumeGate ==
    detectArgs.config.minMovementUsd * detectArgs.config.minPatternTxCount

QualifyingTimes == {detectArgs.transactions[i].timestamp : i \in Qualifying}

-----------------------------------------------------------------------------
(* The HTTP layer: provider failures *)

MovementsList == "GET /api/movements"
WhalesList == "GET /api/whales"
WhaleDetail == "GET /api/whales/:address"
TokenWhales == "GET /api/whales/token/:mint"
WalletSignals == "GET /api/signals/:address"
AnalyzeWallet == "POST /api/signals/analyze/:address"

\* the routes that call the provider when an API key is configured
ProviderRoutes ==
    {MovementsList, WhalesList, WhaleDetail, TokenWhales, WalletSignals,
     AnalyzeWallet}

\* every route awaits the provider inside the try block that answers 500;
\* these three do so inside a try / catch of their own that logs the error
\* and goes on
CatchesPerWallet_Everywhere(route) == route \in ProviderRoutes

CatchesPerWallet(route) == route \in {MovementsList, WhalesList, WalletSignals}

\* how many provider calls the route makes, one per wallet
WalletsOf(route, walletGiven) ==
    IF route = WhalesList THEN MaxWallets
    ELSE IF route = MovementsList /\ ~walletGiven THEN MaxWallets
    ELSE 1

\* a handler from the arrival of the request to its first await, or to its
\* response when no API key is configured (mock data, 404 for a whale the
\* mock data does not know, 503 for the analysis)
startRequest(route, hasRealApi, walletGiven, known) ==
    [ route      |-> route,
      hasRealApi |-> hasRealApi,
      wallets    |-> IF hasRealApi THEN WalletsOf(route, walletGiven) ELSE 0,
      awaiting   |-> IF hasRealApi THEN 1 ELSE 0,
      outcomes   |-> <<>>,
      status     |-> IF hasRealApi THEN 0
                     ELSE IF route = AnalyzeWallet THEN 503
                     ELSE IF route = WhaleDetail /\ ~known THEN 404
                     ELSE 200 ]

\* the handler resumes from its await: the provider call returned ("ok") or
\* threw ("failed"); status 0 while the handler awaits the next call
afterAwait(h, outcome) ==
    LET outcomes == Append(h.outcomes, outcome) IN
    IF outcome = "failed" /\ ~CatchesPerWallet(h.route)
    THEN [h EXCEPT !.outcomes = outcomes, !.awaiting = 0, !.status = 500]
    ELSE IF h.awaiting < h.wallets
    THEN [h EXCEPT !.outcomes = outcomes, !.awaiting = h.awaiting + 1]
    ELSE [h EXCEPT !.outcomes = outcomes, !.awaiting = 0, !.status = 200]

Awaiting == http # Null /\ http.status = 0

HttpRequest(route, hasRealApi, walletGiven, known) ==
    /\ ~Awaiting
    /\ http' = startRequest(route, hasRealApi, walletGiven, known)
    /\ lastOp' = "request"
    /\ UNCHANGED <<now, storeVars, detectVars, parseVars, whaleVars>>

ProviderAnswers ==
    /\ Awaiting
    /\ http' = afterAwait(http, "ok")
    /\ lastOp' = "provider answered"
    /\ UNCHANGED <<now, storeVars, detectVars, parseVars, whaleVars>>

ProviderFails ==
    /\ Awaiting
    /\ http' = afterAwait(http, "failed")
    /\ lastOp' = "provider failed"
    /\ UNCHANGED <<now, storeVars, detectVars, parseVars, whaleVars>>

NextHttp ==
    \/ \E route \in ProviderRoutes, hasRealApi, walletGiven, known \in BOOLEAN :
          HttpRequest(route, hasRealApi, walletGiven, known)
    \/ ProviderAnswers
    \/ ProviderFails

SpecHttp == Init /\ [][NextHttp]_vars

\* the request was answered, with credentials configured, after a provider
\* call failed
AnsweredAfterFailure ==
    /\ http # Null
    /\ http.status # 0
    /\ http.hasRealApi
    /\ \E i \in DOMAIN http.outcomes : http.outcomes[i] = "failed"

-----------------------------------------------------------------------------
(* Movement store: the two indexes *)

\* fresh movements of both tokens, two of each
IndexMovements ==
    MovementsOf({Buy(Sig1, StartNow \div 1000, "T1", 2000),
                 Buy(Sig2, StartNow \div 1000, "T1", 3000),
                 Transfer(Sig1, StartNow \div 1000, "T2", 1000),
                 Transfer(Sig2, StartNow \div 1000, "T2", 1500)},
                DEFAULT_WHALE_CONFIG, StartNow)

NextIndexes ==
    \/ \E m \in IndexMovements : RecordMovement(m)
    \/ ClearMovements
    \/ Tick

SpecIndexes == Init /\ [][NextIndexes]_vars

\* the global list restricted to the movements of token k
GlobalOf(k) ==
    LET Test(m) == m.tokenMint = k IN SelectSeq(recentMovements, Test)

IsPrefix(s, l) == Len(s) <= Len(l) /\ s = SubSeq(l, 1, Len(s))

\* C26 as stated: the list of every token is the global list restricted to
\* the token's movements, in the same order.
C26_Original ==
    \A k \in Tokens : TokenList(k) = GlobalOf(k)

\* C26 amended: the list of a token and the global list restricted to the
\* token are both initial segments of the movements recorded for the token,
\* newest first; they are equal as long as nothing was pruned (no more than
\* MAX_MOVEMENTS_PER_TOKEN recorded for a token, no more than ten times
\* that in all, none older than the maximum age).
C26_Amended ==
    \A k \in Tokens :
        /\ IsPrefix(TokenList(k), LogOf(k))
        /\ IsPrefix(GlobalOf(k), LogOf(k))
        /\ NoPruningTriggered => TokenList(k) = GlobalOf(k)

\* a token with one movement more than its cap: the global list still has
\* the oldest one, which getMovementsByWhale returns and
\* getMovementsByToken does not
C26_Witness ==
    \E k \in Tokens :
        /\ Len(LogOf(k)) = MAX_MOVEMENTS_PER_TOKEN + 1
        /\ Len(TokenList(k)) = MAX_MOVEMENTS_PER_TOKEN
        /\ GlobalOf(k) = LogOf(k)
        /\ Last(LogOf(k)) \in Elems(getMovementsByWhale(Whale1, 50))
        /\ Last(LogOf(k)) \notin Elems(getMovementsByToken(k, 50))

-----------------------------------------------------------------------------
(* Provider data: staking transactions *)

\* what the provider reports the tracked wallet's transactions as: staking
\* and unstaking labels, a swap and a transfer, with the token transfers
\* of the parsing specification
ProviderTxs ==
    [ signature       : {Sig1},
      timestamp       : {StartNow \div 1000},
      type            : { Str(<<"S", "T", "A", "K", "E">>),
                          Str(<<"U", "n", "S", "t", "a", "k", "e">>),
                          Str(<<"s", "w", "a", "p">>),
                          Str(<<"t", "r", "a", "n", "s", "f", "e", "r">>) },
      source          : { Null, Str(<<"M", "A", "R", "I", "N", "A", "D", "E">>) },
      fee             : {5000},
      tokenTransfers  : ParseTokenTransfers,
      nativeTransfers : {Null} ]

InitProvider ==
    /\ now = StartNow
    /\ recentMovements = <<>>
    /\ movementsByToken = <<>>
    /\ insertLog = <<>>
    /\ lastOp = "init"
    /\ lastCall = Null
    /\ detectArgs = Null
    /\ detected = Null
    /\ rawTx \in [tx : ProviderTxs, trackedWallet : {Whale1}]
    /\ parsed = Null
    /\ WhaleIdle
    /\ HttpIdle

ProviderPrices == {10, 100}

ProviderConfigs == {DEFAULT_WHALE_CONFIG, LowConfig, ZeroConfig}

\* the provider's transaction is parsed, and the parsed transaction is
\* handed to processTransactions
NextProvider ==
    \/ ParseTransactionData
    \/ /\ parsed # Null
       /\ \E tokenPrice \in ProviderPrices, config \in ProviderConfigs :
             ProcessTransactions(<<parsed>>, rawTx.trackedWallet, "T1",
                                 tokenPrice, config)

SpecProvider == InitProvider /\ [][NextProvider]_vars

IsStaking(type) == type \in {"stake", "unstake"}

\* the provider's transaction moves tokens to the tracked wallet and away
\* from it
MovesBothWays ==
    /\ LengthOf(rawTx.tx.tokenTransfers) > 0
    /\ LET c == categorizeTransfers(rawTx.tx.tokenTransfers.items,
                                    rawTx.trackedWallet)
       IN  Len(c.incoming) > 0 /\ Len(c.outgoing) > 0

\* C27: a stake or unstake transaction produced by parseTransactionData has
\* tokenIn unset, so createMovement computes amount 0 and USD value 0 and
\* returns null for every configuration with minMovementUsd > 0:
\* processTransactions records no stake or unstake movement for parsed
\* provider data.
C27_StakingNeverRecorded ==
    /\ (parsed # Null /\ IsStaking(parsed.type)) =>
          /\ parsed.tokenIn = Null
          /\ movementLeg(parsed, "T1").amount = 0
          /\ \A tokenPrice \in ProviderPrices, config \in ProviderConfigs :
                config.minMovementUsd > 0 =>
                    createMovement(parsed, rawTx.trackedWallet, "T1",
                                   tokenPrice, config, now) = Null
    /\ (lastCall # Null /\ lastCall.config.minMovementUsd > 0) =>
          \A i \in DOMAIN lastCall.returned :
              ~IsStaking(lastCall.returned[i].type)
    /\ \A i \in DOMAIN insertLog :
          IsStaking(insertLog[i].type) =>
              insertLog[i].amount = 0 /\ insertLog[i].usdValue = 0

\* a staking transaction that moved tokens both ways was parsed and handed
\* to processTransactions under a positive threshold, and nothing was
\* recorded
C27_Witness ==
    /\ lastOp = "processTransactions"
    /\ lastCall.config.minMovementUsd > 0
    /\ IsStaking(lastCall.txs[1].type)
    /\ MovesBothWays
    /\ lastCall.returned = <<>>
    /\ recentMovements = <<>>

-----------------------------------------------------------------------------
(* Whale registry: discovery again *)

\* the token is discovered at $10 and at $5, where the holder of 10,000 is
\* below the threshold and the holder of 20,000 exactly at it; the first
\* wallet is analysed in between, and time passes
NextRediscover ==
    \/ \E tokenPrice \in {10, 5} :
          pending = {} /\ DiscoverWhalesCall("T1", tokenPrice, DEFAULT_WHALE_CONFIG)
    \/ \E call \in pending, value \in HolderAnswers :
          DiscoverWhalesResolve(call, value)
    \/ pending = {} /\ AnalyzeWhaleCall(Whale1, "T1", 10, DEFAULT_WHALE_CONFIG)
    \/ \E call \in pending, rawTxs \in TxAnswers(now) :
          AnalyzeWhaleResolve(call, rawTxs)
    \/ Tick

SpecRediscover == Init /\ [][NextRediscover]_vars

\* the addresses of the fetched holders that reach the threshold
PassingAddresses == {lastResult.fetched[i].address : i \in WhalesAt}

\* the profile discoverWhales builds for the fetched holder at position i
FreshProfile(i) ==
    [ address       |-> lastResult.fetched[i].address,
      tokenMint     |-> lastResult.call.tokenMint,
      holdings      |-> lastResult.fetched[i].uiAmount,
      usdValue      |-> WorthAt(i),
      firstSeen     |-> now,
      lastActivity  |-> now,
      behavior      |-> "unknown",
      recentTxCount |-> 0 ]

\* the wallets registered under a token
RegisteredUnder(registry, tokenMint) ==
    IF tokenMint \in DOMAIN registry
    THEN {registry[tokenMint][i].key : i \in DOMAIN registry[tokenMint]}
    ELSE {}

\* C28: when discoverWhales runs again for a token, the profile of every
\* holder that passes the threshold is replaced by a fresh one (behavior
\* 'unknown', recentTxCount 0, firstSeen the time of this discovery), and
\* the wallets that are absent from the new holder list or below the
\* threshold stay in the registry unchanged.
C28_Rediscover ==
    DiscoverJustResolved =>
        LET mint == lastResult.call.tokenMint
            before == lastResult.before.registry
        IN  /\ \A i \in WhalesAt :
                  getWhaleProfile(whaleRegistry, mint,
                                  lastResult.fetched[i].address) = FreshProfile(i)
            /\ \A k \in DOMAIN before :
                  \A w \in RegisteredUnder(before, k) :
                      (k # mint \/ w \notin PassingAddresses) =>
                          getWhaleProfile(whaleRegistry, k, w)
                              = getWhaleProfile(before, k, w)

\* a wallet discovered and analysed on an earlier day passes the threshold
\* again and has a fresh profile, and another registered wallet that does
\* not pass has kept its profile of the earlier day
C28_Witness ==
    /\ DiscoverJustResolved
    /\ LET mint == lastResult.call.tokenMint
           before == lastResult.before.registry
       IN  /\ \E w \in PassingAddresses \cap RegisteredUnder(before, mint) :
                 /\ getWhaleProfile(before, mint, w).behavior # "unknown"
                 /\ getWhaleProfile(before, mint, w).recentTxCount > 0
                 /\ getWhaleProfile(before, mint, w).firstSeen < now
                 /\ getWhaleProfile(whaleRegistry, mint, w).behavior = "unknown"
                 /\ getWhaleProfile(whaleRegistry, mint, w).firstSeen = now
           /\ \E w \in RegisteredUnder(before, mint) \ PassingAddresses :
                 /\ getWhaleProfile(whaleRegistry, mint, w).firstSeen < now
                 /\ getWhaleProfile(whaleRegistry, mint, w)
                       = getWhaleProfile(before, mint, w)

-----------------------------------------------------------------------------
(* Whale registry: a clear during an analysis *)

\* the analyzeWhale call that has just resolved is not in the log of
\* events as a call: the log was emptied by clearWhaleRegistry while the
\* call was waiting for the provider
SuspendedAcrossClear ==
    /\ AnalyzeJustResolved
    /\ \A i \in DOMAIN eventLog.events :
          ~(eventLog.events[i].ev = "call"
              /\ eventLog.events[i].call = lastResult.call)

\* C29: when clearWhaleRegistry runs while analyzeWhale is suspended, the
\* resumed call completes without error and stores the wallet's parsed
\* transactions in the history cache, which is therefore not empty after
\* the clear, while the registry stays empty: the profile update is a
\* no-op.
C29_ClearDuringAnalysis ==
    SuspendedAcrossClear =>
        LET wallet == lastResult.call.walletAddress IN
        /\ lastResult.returned.behavior
              \in {"accumulating", "distributing", "holding", "unknown"}
        /\ wallet \in DOMAIN transactionHistory
        /\ transactionHistory[wallet] =
              [i \in DOMAIN lastResult.fetched |->
                  parseTransactionData(lastResult.fetched[i], wallet)]
        /\ DOMAIN lastResult.before.registry = {} =>
              DOMAIN whaleRegistry = {}

\* the call resumed in the state the clear had left, with three
\* transactions from the provider: they are in the cache and the registry
\* is empty
C29_Witness ==
    /\ SuspendedAcrossClear
    /\ DOMAIN lastResult.before.registry = {}
    /\ DOMAIN lastResult.before.history = {}
    /\ Len(lastResult.fetched) = 3
    /\ Len(transactionHistory[lastResult.call.walletAddress]) = 3
    /\ DOMAIN whaleRegistry = {}

-----------------------------------------------------------------------------
(* processTransactions: the same transactions again *)

\* purchases and a sale made now, worth $20,000, $10,000 and $5,000 at
\* $10, a transfer worth $15,000, a purchase made two days ago and one
\* older than the maximum age
RepeatTxs(t) ==
    LET ts == t \div 1000 IN
    { Buy(Sig1, ts, "T1", 2000),
      Transfer(Sig2, ts, "T1", 1500),
      Sell(Sig2, ts, "T1", 1000),
      Sell(Sig1, ts, "T1", 500),
      Buy(Sig2, ts - 2 * 24 * 60 * 60, "T1", 1500),
      Buy(Sig1, ts - 8 * 24 * 60 * 60, "T1", 3000) }

\* every call made since the store was last cleared has the transactions
\* and the configuration of the call before it
NextRepeat ==
    \/ \E txs \in Batches(RepeatTxs(now)), config \in Configs :
          /\ lastCall # Null => (txs = lastCall.txs /\ config = lastCall.config)
          /\ ProcessTransactions(txs, Whale1, "T1", 10, config)
    \/ ClearMovements

SpecRepeat == Init /\ [][NextRepeat]_vars

\* the sequence s, n times over
RECURSIVE Times(_, _)
Times(s, n) == IF n = 0 THEN <<>> ELSE s \o Times(s, n - 1)

\* how often the transactions of the last call have been processed since
\* the store was last cleared
TimesProcessed == Len(insertLog) \div Len(lastCall.returned)

\* the movements of the last call that lie in the window
ReturnedInWindow(windowMs) ==
    LET Test(m) == m.timestamp >= now - windowMs
    IN  SelectSeq(lastCall.returned, Test)

\* C30: the store does not deduplicate: when processTransactions is called
\* again with the same transactions (within the maximum age and below the
\* caps), every qualifying movement is stored once per call in the global
\* list and in the token's list, and getMovementStats counts its USD value
\* once per call: twice after two calls.
C30_NoDeduplication ==
    (lastCall # Null /\ lastCall.returned # <<>> /\ NoPruningTriggered) =>
        LET n == TimesProcessed
            copies == Times(Reverse(lastCall.returned), n)
        IN  /\ Len(lastCall.returned) = Cardinality(QualifyingAt)
            /\ recentMovements = copies
            /\ TokenList(lastCall.tokenMint) = copies
            /\ \A windowMs \in Windows :
                  LET stats == getMovementStats(lastCall.tokenMint, windowMs)
                  IN  /\ stats.totalMovements
                            = n * Len(ReturnedInWindow(windowMs))
                      /\ stats.totalVolumeUsd
                            = n * SumUsd(ReturnedInWindow(windowMs))

\* a purchase worth $20,000 was processed twice: it is in both lists
\* twice and the statistics of the last day count $40,000 in two movements
C30_Witness ==
    /\ lastCall # Null
    /\ NoPruningTriggered
    /\ Len(lastCall.returned) = 1
    /\ lastCall.returned[1].usdValue = 20000
    /\ TimesProcessed = 2
    /\ Len(recentMovements) = 2
    /\ recentMovements[1] = recentMovements[2]
    /\ Len(TokenList("T1")) = 2
    /\ getMovementStats("T1", DEFAULT_WINDOW_MS).totalVolumeUsd = 40000
    /\ getMovementStats("T1", DEFAULT_WINDOW_MS).totalMovements = 2

====
